---- MODULE Spec2Model ----
(***************************************************************************)
(* PokerClaw: one Texas Hold'em table of the backend (server.js) together  *)
(* with the card, deck and hand-evaluation functions (poker.js).           *)
(*                                                                         *)
(* A card is an integer 0..51 in createDeck order: suit = c \div 13        *)
(* (hearts, diamonds, clubs, spades), value = (c % 13) + 2 (Ace = 14).     *)
(* A player (moltbook_id) is an integer 1..NumPlayers; 0 stands for null.  *)
(***************************************************************************)
EXTENDS Integers, Sequences, FiniteSets, TLC

\* ------------------------------------------------------------------------
\* Program constants
\* ------------------------------------------------------------------------
SEATS_PER_TABLE == 9
MIN_PLAYERS_TO_START == 2
BLINDS_SMALL == 1
BLINDS_BIG == 2
DECK_SIZE == 52

\* ------------------------------------------------------------------------
\* Bounds of the model
\* ------------------------------------------------------------------------
\* number of registered accounts that may come to the table
NumPlayers == 3
\* hands started at the table (hand_number) before the model stops dealing
MaxHands == 2
\* setTimeout callbacks that may be pending at once
MaxTimers == 2
\* requests served: findTable, leave, and action requests that were not
\* rejected
MaxRequests == 6
\* leave requests served
MaxLeaves == 2
\* the "amount" of a raise request; 0 stands for a missing amount
RaiseAmounts == {20}

Players == 1..NumPlayers
STARTING_BALANCE == 100

\* the balances the accounts hold when they first come to the table: the
\* balance of a new registration for everybody, or accounts that earlier
\* play elsewhere has left with 7 chips, with 2 chips (the big blind) and
\* with 1 chip (less than the big blind)
StartProfiles ==
  {[p \in Players |-> STARTING_BALANCE],
   [p \in Players |-> IF p = 1 THEN 7 ELSE IF p = 2 THEN 2
                       ELSE IF p = 3 THEN 1 ELSE STARTING_BALANCE]}

SeatIdx == 0..(SEATS_PER_TABLE - 1)

\* ------------------------------------------------------------------------
\* Cards and deck (poker.js)
\* ------------------------------------------------------------------------
Value(c) == (c % 13) + 2
Suit(c) == c \div 13

createDeck == [i \in 1..DECK_SIZE |-> i - 1]

\* Fisher-Yates as in shuffleDeck: for i = n-1 down to 1, swap positions i
\* and j = rnd[i], the value drawn for Math.floor(Math.random() * (i + 1)).
\* Positions are 0-based as in the code; sequence index = position + 1.
Swap(s, a, b) == [s EXCEPT ![a] = s[b], ![b] = s[a]]

RECURSIVE shuffleFrom(_, _, _)
shuffleFrom(shuffled, rnd, i) ==
  IF i < 1 THEN shuffled
  ELSE CHOOSE r \in {shuffleFrom(v, rnd, j) :
                        v \in {Swap(shuffled, i + 1, rnd[i] + 1)}, j \in {i - 1}} : TRUE

shuffleDeck(deck, rnd) == shuffleFrom(deck, rnd, Len(deck) - 1)

\* dealCards leaving the dealt cards in the deck (slice in place of splice)
rest_Kept(deck, count) == deck

\* dealCards: deck.splice(0, count) -- the dealt cards and the deck left
dealt(deck, count) == SubSeq(deck, 1, IF count < Len(deck) THEN count ELSE Len(deck))
rest(deck, count) == SubSeq(deck, count + 1, Len(deck))

\* ------------------------------------------------------------------------
\* Hand evaluation (poker.js)
\* ------------------------------------------------------------------------
HIGH_CARD == 1
ONE_PAIR == 2
TWO_PAIR == 3
THREE_OF_A_KIND == 4
STRAIGHT == 5
FLUSH == 6
FULL_HOUSE == 7
FOUR_OF_A_KIND == 8
STRAIGHT_FLUSH == 9
ROYAL_FLUSH == 10

\* cards.sort((a, b) => b.value - a.value): stable, descending by value
InsertDesc(s, x) ==
  LET k == Cardinality({i \in DOMAIN s : Value(s[i]) >= Value(x)})
  IN SubSeq(s, 1, k) \o <<x>> \o SubSeq(s, k + 1, Len(s))

RECURSIVE SortDesc(_)
SortDesc(s) ==
  IF s = <<>> THEN <<>>
  ELSE InsertDesc(SortDesc(SubSeq(s, 1, Len(s) - 1)), s[Len(s)])

\* slice(0, n)
Slice(s, n) == SubSeq(s, 1, IF n < Len(s) THEN n ELSE Len(s))

\* a set of integers as a descending sequence
RECURSIVE DescSeq(_)
DescSeq(S) ==
  IF S = {} THEN <<>>
  ELSE LET m == CHOOSE x \in S : \A y \in S : y <= x
       IN <<m>> \o DescSeq(S \ {m})

\* getCounts: number of cards of each rank (rank identified by its value)
getCounts(cards) ==
  [v \in {Value(cards[i]) : i \in DOMAIN cards} |->
     Cardinality({i \in DOMAIN cards : Value(cards[i]) = v})]

\* getSuitCounts
getSuitCounts(cards) ==
  [s \in {Suit(cards[i]) : i \in DOMAIN cards} |->
     Cardinality({i \in DOMAIN cards : Suit(cards[i]) = s})]

\* Object.entries(counts).sort(count descending, then value descending):
\* a sequence of <<rank value, count>>
countValuesOf(cards) ==
  LET counts == getCounts(cards)
      RECURSIVE ord(_)
      ord(S) ==
        IF S = {} THEN <<>>
        ELSE LET m == CHOOSE x \in S : \A y \in S :
                        \/ counts[x] > counts[y]
                        \/ counts[x] = counts[y] /\ x >= y
             IN <<(<<m, counts[m]>>)>> \o ord(S \ {m})
  IN ord(DOMAIN counts)

\* getFlush without the sort: the first five cards of the suit as given
getFlush_Unsorted(cards) ==
  LET suitCounts == getSuitCounts(cards)
      fs == {s \in DOMAIN suitCounts : suitCounts[s] >= 5}
  IN IF fs = {} THEN <<>>
     ELSE LET suit == CHOOSE s \in fs : \A t \in fs : s <= t
          IN Slice(SelectSeq(cards, LAMBDA c : Suit(c) = suit), 5)

\* getFlush: the five highest cards of a suit held at least five times;
\* <<>> stands for null
getFlush(cards) ==
  LET suitCounts == getSuitCounts(cards)
      fs == {s \in DOMAIN suitCounts : suitCounts[s] >= 5}
  IN IF fs = {} THEN <<>>
     ELSE LET suit == CHOOSE s \in fs : \A t \in fs : s <= t
          IN Slice(SortDesc(SelectSeq(cards, LAMBDA c : Suit(c) = suit)), 5)

\* getStraight with the Ace counted high only
getStraight_AceHigh(cards) ==
  LET vals == {Value(cards[i]) : i \in DOMAIN cards}
      uniqueValues == DescSeq(vals)
      starts == {i \in 1..(Len(uniqueValues) - 4) :
                   \A j \in 0..3 : uniqueValues[i + j] - uniqueValues[i + j + 1] = 1}
  IN IF starts = {} THEN <<>>
     ELSE LET i == CHOOSE x \in starts : \A y \in starts : x <= y
              find(v) ==
                LET idx == {k \in DOMAIN cards : Value(cards[k]) = v}
                IN cards[CHOOSE k \in idx : \A l \in idx : k <= l]
          IN [k \in 1..5 |-> find(uniqueValues[i] - (k - 1))]

\* getStraight: the highest run of five consecutive values, the Ace also
\* counting as 1; <<>> stands for null
getStraight(cards) ==
  LET vals == {Value(cards[i]) : i \in DOMAIN cards}
      uniqueValues == DescSeq(vals) \o (IF 14 \in vals THEN <<1>> ELSE <<>>)
      consecutive(i) ==
        \A j \in 0..3 : uniqueValues[i + j] - uniqueValues[i + j + 1] = 1
      starts == {i \in 1..(Len(uniqueValues) - 4) : consecutive(i)}
  IN IF starts = {} THEN <<>>
     ELSE LET i == CHOOSE x \in starts : \A y \in starts : x <= y
              straightHighValue == uniqueValues[i]
              actualValue(v) == IF v = 1 THEN 14 ELSE v
              find(v) ==
                LET idx == {k \in DOMAIN cards : Value(cards[k]) = actualValue(v)}
                IN cards[CHOOSE k \in idx : \A l \in idx : k <= l]
          IN [k \in 1..5 |-> find(straightHighValue - (k - 1))]

\* getStraightFlush
getStraightFlush(cards) ==
  LET suitCounts == getSuitCounts(cards)
      fs == {s \in DOMAIN suitCounts : suitCounts[s] >= 5}
  IN IF fs = {} THEN <<>>
     ELSE LET suit == CHOOSE s \in fs : \A t \in fs : s <= t
          IN getStraight(SelectSeq(cards, LAMBDA c : Suit(c) = suit))

\* evaluateHand: [ranking, cards, kickers]
evaluateHand(holeCards, communityCards) ==
  LET allCards == holeCards \o communityCards
      countValues == countValuesOf(allCards)
      ofRank(r) == SelectSeq(allCards, LAMBDA c : Value(c) = r)
      notRank(r) == SelectSeq(allCards, LAMBDA c : Value(c) # r)
      straightFlush == getStraightFlush(allCards)
      flush == getFlush(allCards)
      straight == getStraight(allCards)
      res(rk, cs, ks) == [ranking |-> rk, cards |-> cs, kickers |-> ks]
  IN IF Len(allCards) < 5 THEN res(0, <<>>, <<>>)
     ELSE IF straightFlush # <<>> THEN
       IF Value(straightFlush[1]) = 14
       THEN res(ROYAL_FLUSH, straightFlush, <<>>)
       ELSE res(STRAIGHT_FLUSH, straightFlush, <<>>)
     ELSE IF countValues[1][2] = 4 THEN
       res(FOUR_OF_A_KIND, ofRank(countValues[1][1]),
           Slice(SortDesc(notRank(countValues[1][1])), 1))
     ELSE IF countValues[1][2] = 3 /\ Len(countValues) >= 2 /\ countValues[2][2] >= 2 THEN
       res(FULL_HOUSE,
           Slice(ofRank(countValues[1][1]), 3) \o Slice(ofRank(countValues[2][1]), 2),
           <<>>)
     ELSE IF flush # <<>> THEN res(FLUSH, flush, <<>>)
     ELSE IF straight # <<>> THEN res(STRAIGHT, straight, <<>>)
     ELSE IF countValues[1][2] = 3 THEN
       res(THREE_OF_A_KIND, ofRank(countValues[1][1]),
           Slice(SortDesc(notRank(countValues[1][1])), 2))
     ELSE IF countValues[1][2] = 2 /\ Len(countValues) >= 2 /\ countValues[2][2] = 2 THEN
       LET highPairRank == countValues[1][1]
           lowPairRank == countValues[2][1]
       IN res(TWO_PAIR,
              Slice(ofRank(highPairRank), 2) \o Slice(ofRank(lowPairRank), 2),
              Slice(SortDesc(SelectSeq(allCards,
                      LAMBDA c : Value(c) # highPairRank /\ Value(c) # lowPairRank)), 1))
     ELSE IF countValues[1][2] = 2 THEN
       res(ONE_PAIR, ofRank(countValues[1][1]),
           Slice(SortDesc(notRank(countValues[1][1])), 3))
     ELSE LET highCards == Slice(SortDesc(allCards), 5)
          IN res(HIGH_CARD, <<highCards[1]>>, SubSeq(highCards, 2, Len(highCards)))

\* first position at which two card lists differ in value (0 when none)
firstDiff(a, b) ==
  LET n == IF Len(a) < Len(b) THEN Len(a) ELSE Len(b)
      d == {i \in 1..n : Value(a[i]) # Value(b[i])}
  IN IF d = {} THEN 0 ELSE CHOOSE i \in d : \A j \in d : i <= j

\* compareHands looking at the cards before the category
compareHands_CardsFirst(hand1, hand2) ==
  LET c == firstDiff(hand1.cards, hand2.cards)
      k == firstDiff(hand1.kickers, hand2.kickers)
  IN IF c # 0 THEN Value(hand2.cards[c]) - Value(hand1.cards[c])
     ELSE IF k # 0 THEN Value(hand2.kickers[k]) - Value(hand1.kickers[k])
     ELSE hand2.ranking - hand1.ranking

\* compareHands: negative when hand1 is the better hand, 0 on a tie
compareHands(hand1, hand2) ==
  IF hand1.ranking # hand2.ranking THEN hand2.ranking - hand1.ranking
  ELSE LET c == firstDiff(hand1.cards, hand2.cards)
           k == firstDiff(hand1.kickers, hand2.kickers)
       IN IF c # 0 THEN Value(hand2.cards[c]) - Value(hand1.cards[c])
          ELSE IF k # 0 THEN Value(hand2.kickers[k]) - Value(hand1.kickers[k])
          ELSE 0

\* determineWinners returning every remaining player, in the order given
determineWinners_All(players, holeOf, communityCards) ==
  [i \in DOMAIN players |->
     [player |-> players[i],
      hand |-> evaluateHand(holeOf[players[i]], communityCards)]]

\* determineWinners: evaluate every remaining player, sort best first
\* (Array.prototype.sort is stable), keep those tied with the first.
\* players: sequence of player ids; holeOf[id]: that player's hole cards.
insertEval(s, e) ==
  LET k == Cardinality({i \in DOMAIN s : compareHands(s[i].hand, e.hand) <= 0})
  IN SubSeq(s, 1, k) \o <<e>> \o SubSeq(s, k + 1, Len(s))

RECURSIVE sortEvals(_)
sortEvals(s) ==
  IF s = <<>> THEN <<>>
  ELSE insertEval(sortEvals(SubSeq(s, 1, Len(s) - 1)), s[Len(s)])

determineWinners(players, holeOf, communityCards) ==
  LET evaluations ==
        sortEvals([i \in DOMAIN players |->
                     [player |-> players[i],
                      hand |-> evaluateHand(holeOf[players[i]], communityCards)]])
      tied == {i \in DOMAIN evaluations :
                 \A j \in 1..i : compareHands(evaluations[1].hand, evaluations[j].hand) = 0}
  IN SubSeq(evaluations, 1, Cardinality(tied))

\* ------------------------------------------------------------------------
\* Table, game and account records (server.js)
\* ------------------------------------------------------------------------
\* an empty seat (null)
NoSeat == [id |-> 0, balance |-> 0]

\* player_hands entry of a player who was not dealt in (undefined)
NoHand == [dealt |-> FALSE, hole_cards |-> <<>>, folded |-> FALSE,
           current_bet |-> 0, total_bet |-> 0]

\* table.game = null
NoGame == [exists |-> FALSE, phase |-> "waiting", deck |-> <<>>,
           community_cards |-> <<>>, pot |-> 0, current_bet |-> 0,
           player_hands |-> [p \in Players |-> NoHand],
           active_players |-> <<>>, dealer_index |-> 0,
           current_turn_index |-> 0, current_turn_player |-> 0,
           last_raiser |-> 0, hand_number |-> 0, winners |-> <<>>]

\* no table document yet
NoTable == [exists |-> FALSE, seats |-> [i \in SeatIdx |-> NoSeat],
            seats_count |-> 0, status |-> "waiting", game |-> NoGame]

\* a set of integers as an ascending sequence
RECURSIVE AscSeq(_)
AscSeq(S) ==
  IF S = {} THEN <<>>
  ELSE LET m == CHOOSE x \in S : \A y \in S : x <= y
       IN <<m>> \o AscSeq(S \ {m})

\* seats.findIndex(s => s && s.moltbook_id === id), -1 when absent
seatIndexOf(seats, id) ==
  LET S == {i \in SeatIdx : seats[i].id # 0 /\ seats[i].id = id}
  IN IF S = {} THEN -1 ELSE CHOOSE i \in S : \A j \in S : i <= j

\* the seat records left as they were
addSeatBalance_Unchanged(seats, id, delta) == seats

\* the loop "for i: if seats[i] && seats[i].moltbook_id === id then
\* seats[i].balance += delta; break"
addSeatBalance(seats, id, delta) ==
  LET i == seatIndexOf(seats, id)
  IN IF i = -1 THEN seats
     ELSE [seats EXCEPT ![i].balance = seats[i].balance + delta]

addBalance(accounts, id, delta) ==
  [accounts EXCEPT ![id].balance = accounts[id].balance + delta]

\* index of x in the sequence s, 0-based as findIndex; -1 when absent
findIndex(s, x) ==
  LET S == {i \in DOMAIN s : s[i] = x}
  IN IF S = {} THEN -1 ELSE (CHOOSE i \in S : \A j \in S : i <= j) - 1

\* applyBet with the cumulative bet left out
applyBet_NoTotal(playerHand, betAmount) ==
  [playerHand EXCEPT !.current_bet = @ + betAmount]

\* playerHand.current_bet += betAmount; playerHand.total_bet += betAmount
applyBet(playerHand, betAmount) ==
  [playerHand EXCEPT !.current_bet = @ + betAmount, !.total_bet = @ + betAmount]

\* defaultWinnings paying the share of a split among the dealt players
defaultWinnings_Share(game) == game.pot \div Len(game.active_players)

\* what the last player standing is paid: game.pot
defaultWinnings(game) == game.pot

\* Object.entries(game.player_hands) filtered on !folded: ids in insertion
\* order, which is the order of active_players
notFolded(game) ==
  LET ap == game.active_players
      idx == AscSeq({i \in DOMAIN ap :
                       /\ \A j \in 1..(i - 1) : ap[j] # ap[i]
                       /\ ~game.player_hands[ap[i]].folded})
  IN [k \in DOMAIN idx |-> ap[idx[k]]]

\* ------------------------------------------------------------------------
\* startNewHand, advancePhase, resolveShowdown as functions of the table
\* document t and the accounts collection acc.  Each returns the records
\* written back; "timer" tells whether resolveShowdown scheduled the
\* inter-hand setTimeout, "threw" whether the call ended in a TypeError,
\* "evaluated" whether determineWinners ran.
\* ------------------------------------------------------------------------

\* table.seats.map(...).filter(s => s && s.balance > 0): seat indices
activeSeatsAtStart(t) ==
  AscSeq({i \in SeatIdx : t.seats[i].id # 0 /\ t.seats[i].balance > 0})

startNewHand(t, acc, rnd) ==
  LET activePlayers == activeSeatsAtStart(t)
      n == Len(activePlayers)
      idOf(k) == t.seats[activePlayers[k + 1]].id
      deck == shuffleDeck(createDeck, rnd)
      dealerIndex == IF t.game.exists THEN (t.game.dealer_index + 1) % n ELSE 0
      smallBlindIndex == (dealerIndex + 1) % n
      bigBlindIndex == (dealerIndex + 2) % n
      firstToActIndex == (bigBlindIndex + 1) % n
      sb == idOf(smallBlindIndex)
      bb == idOf(bigBlindIndex)
      \* playerHands[player.moltbook_id] = ...: the hand dealt last to an
      \* id is the one kept
      posOf(id) ==
        LET S == {k \in 0..(n - 1) : idOf(k) = id}
        IN IF S = {} THEN -1 ELSE CHOOSE k \in S : \A l \in S : l <= k
      blindOf(id) == IF id = bb THEN BLINDS_BIG
                     ELSE IF id = sb THEN BLINDS_SMALL ELSE 0
      playerHands ==
        [p \in Players |->
           IF posOf(p) = -1 THEN NoHand
           ELSE [dealt |-> TRUE,
                 hole_cards |-> SubSeq(deck, 2 * posOf(p) + 1, 2 * posOf(p) + 2),
                 folded |-> FALSE,
                 current_bet |-> blindOf(p),
                 total_bet |-> blindOf(p)]]
      game == [exists |-> TRUE, phase |-> "pre_flop",
               deck |-> rest(deck, 2 * n),
               community_cards |-> <<>>,
               pot |-> BLINDS_SMALL + BLINDS_BIG,
               current_bet |-> BLINDS_BIG,
               player_hands |-> playerHands,
               active_players |-> [k \in 1..n |-> idOf(k - 1)],
               dealer_index |-> dealerIndex,
               current_turn_index |-> firstToActIndex,
               current_turn_player |-> idOf(firstToActIndex),
               last_raiser |-> bb,
               hand_number |-> t.game.hand_number + 1,
               winners |-> <<>>]
      seatBlind(s) == IF s.id = 0 THEN 0
                      ELSE IF s.id = sb THEN BLINDS_SMALL
                      ELSE IF s.id = bb THEN BLINDS_BIG ELSE 0
  IN IF n < MIN_PLAYERS_TO_START
     THEN [table |-> t, accounts |-> acc, started |-> FALSE]
     ELSE [table |-> [t EXCEPT !.status = "playing", !.game = game,
                               !.seats = [i \in SeatIdx |->
                                            [t.seats[i] EXCEPT !.balance = @ - seatBlind(t.seats[i])]]],
           accounts |-> addBalance(addBalance(acc, sb, -BLINDS_SMALL), bb, -BLINDS_BIG),
           started |-> TRUE]

\* the loop "for (const winner of winners)": each winner's account and
\* seat are credited with potShare
RECURSIVE payWinners(_, _, _, _, _)
payWinners(k, winners, potShare, seats, accounts) ==
  IF k > Len(winners) THEN [seats |-> seats, accounts |-> accounts]
  ELSE payWinners(k + 1, winners, potShare,
                  addSeatBalance(seats, winners[k].player, potShare),
                  addBalance(accounts, winners[k].player, potShare))

\* the end of resolveShowdown: the table document and the accounts after
\* the payout, game.phase 'waiting', status 'hand_complete'
handComplete(t, seats, accounts, winners, evaluated) ==
  [table |-> [t EXCEPT !.seats = seats, !.status = "hand_complete",
                       !.game = [t.game EXCEPT !.phase = "waiting",
                                               !.winners = winners]],
   accounts |-> accounts, timer |-> TRUE, threw |-> FALSE, evaluated |-> evaluated]

\* potShareOf rounding the share up
potShareOf_RoundedUp(pot, count) == (pot + count - 1) \div count

\* Math.floor(game.pot / winners.length)
potShareOf(pot, count) == pot \div count

\* the branch of resolveShowdown for several remaining players, given the
\* result of determineWinners: potShare = Math.floor(pot / winners.length)
\* paid to each winner, winners.map(...) written as game.winners
splitPot(t, acc, winners) ==
  LET potShare == potShareOf(t.game.pot, Len(winners))
      paid == payWinners(1, winners, potShare, t.seats, acc)
  IN handComplete(t, paid.seats, paid.accounts,
                  [k \in DOMAIN winners |->
                     [moltbook_id |-> winners[k].player,
                      hand_ranking |-> winners[k].hand.ranking,
                      pot_share |-> potShare]],
                  TRUE)

resolveShowdown(t, acc) ==
  LET game == t.game
      remainingPlayers == notFolded(game)
      holeOf == [p \in Players |-> game.player_hands[p].hole_cards]
  IN IF ~game.exists
     THEN [table |-> t, accounts |-> acc, timer |-> FALSE, threw |-> FALSE, evaluated |-> FALSE]
     ELSE IF Len(remainingPlayers) = 1
     THEN handComplete(t, addSeatBalance(t.seats, remainingPlayers[1], defaultWinnings(game)),
                       addBalance(acc, remainingPlayers[1], defaultWinnings(game)),
                       game.winners, FALSE)
     ELSE IF Len(remainingPlayers) = 0
     \* determineWinners([]) returns [undefined]; its log line throws
     THEN [table |-> t, accounts |-> acc, timer |-> FALSE, threw |-> TRUE, evaluated |-> TRUE]
     ELSE splitPot(t, acc, determineWinners(remainingPlayers, holeOf, game.community_cards))

\* the first seat after the dealer's seat, clockwise, that holds a player
\* of the hand who has not folded (-1 when there is none)
firstAfterDealer(t) ==
  LET game == t.game
      inHand(i) == /\ t.seats[i].id # 0
                   /\ findIndex(game.active_players, t.seats[i].id) # -1
                   /\ ~game.player_hands[t.seats[i].id].folded
      dealerSeatIndex == seatIndexOf(t.seats, game.active_players[game.dealer_index + 1])
      steps == {i \in 1..SEATS_PER_TABLE : inHand((dealerSeatIndex + i) % SEATS_PER_TABLE)}
  IN IF steps = {} THEN -1
     ELSE (dealerSeatIndex + (CHOOSE i \in steps : \A j \in steps : i <= j)) % SEATS_PER_TABLE

\* the number of community cards advancePhase reveals when the round of
\* the given phase closes: 3 for the flop, 1 for the turn, 1 for the river
newCardsCount(phase) ==
  CASE phase = "pre_flop" -> 3
    [] phase = "flop" -> 1
    [] phase = "turn" -> 1
    [] OTHER -> 0

advancePhase(t, acc) ==
  LET game == t.game
      newPhase == CASE game.phase = "pre_flop" -> "flop"
                    [] game.phase = "flop" -> "turn"
                    [] game.phase = "turn" -> "river"
                    [] game.phase = "river" -> "showdown"
                    [] OTHER -> "none"
      count == newCardsCount(game.phase)
      activeIdx == AscSeq({i \in SeatIdx :
                      /\ t.seats[i].id # 0
                      /\ findIndex(game.active_players, t.seats[i].id) # -1
                      /\ ~game.player_hands[t.seats[i].id].folded})
      firstSeat == firstAfterDealer(t)
      nextPlayerIndex == IF firstSeat = -1 THEN -1 ELSE findIndex(activeIdx, firstSeat)
      g1 == [game EXCEPT
               !.community_cards = @ \o dealt(game.deck, count),
               !.deck = rest(game.deck, count),
               !.phase = newPhase,
               !.current_bet = 0,
               !.player_hands = [p \in Players |->
                                   IF game.player_hands[p].dealt
                                   THEN [game.player_hands[p] EXCEPT !.current_bet = 0]
                                   ELSE game.player_hands[p]]]
      g2 == IF Len(activeIdx) > 0 /\ nextPlayerIndex >= 0
            THEN [g1 EXCEPT !.current_turn_index = nextPlayerIndex,
                            !.current_turn_player = t.seats[firstSeat].id,
                            !.last_raiser = 0]
            ELSE g1
      t2 == [t EXCEPT !.game = g2]
  IN IF ~game.exists \/ newPhase = "none"
     THEN [table |-> t, accounts |-> acc, timer |-> FALSE, threw |-> FALSE, evaluated |-> FALSE]
     ELSE IF newPhase = "showdown" THEN resolveShowdown(t2, acc)
     ELSE [table |-> t2, accounts |-> acc, timer |-> FALSE, threw |-> FALSE, evaluated |-> FALSE]

\* ------------------------------------------------------------------------
\* POST /api/poker/action as a function of the table document, the accounts
\* and the request (player p, action kind, amount).  result is "rejected"
\* (a 4xx response), "accepted" (a 200 response) or "threw"; bet is the
\* amount_bet of the response.
\* ------------------------------------------------------------------------
\* callBet paying the whole amount owed
callBet_Full(amountToCall, balance) == amountToCall

\* case 'call': betAmount = Math.min(amountToCall, account.balance)
callBet(amountToCall, balance) ==
  IF amountToCall < balance THEN amountToCall ELSE balance

\* raiseBet without the cap at the balance
raiseBet_Uncapped(raiseAmount, playerBet, balance) == raiseAmount - playerBet

\* case 'raise': betAmount = raiseAmount - playerHand.current_bet, capped
\* at account.balance
raiseBet(raiseAmount, playerBet, balance) ==
  IF raiseAmount - playerBet > balance THEN balance ELSE raiseAmount - playerBet

\* rejectedResponse after the hand of the player was marked folded
rejectedResponse_Folded(t, acc, p) ==
  [table |-> [t EXCEPT !.game.player_hands[p].folded = TRUE], accounts |-> acc,
   result |-> "rejected", timer |-> FALSE, evaluated |-> FALSE, bet |-> 0]

\* return res.status(4xx).json({error}): every such return of the handler
\* comes before the first write to an account or to the table
rejectedResponse(t, acc, p) ==
  [table |-> t, accounts |-> acc, result |-> "rejected",
   timer |-> FALSE, evaluated |-> FALSE, bet |-> 0]

ActionKinds == {"fold", "check", "call", "raise", "bet", ""}

handleAction(t, acc, p, kind, amount) ==
  LET game == t.game
      playerHand == game.player_hands[p]
      amountToCall == game.current_bet - playerHand.current_bet
      balance == acc[p].balance
      raiseAmount == IF amount # 0 THEN amount ELSE game.current_bet * 2
      rejected ==
        \/ kind = ""
        \/ ~t.exists
        \/ ~game.exists
        \/ game.current_turn_player # p
        \/ kind = "check" /\ amountToCall > 0
        \/ kind = "raise" /\ raiseAmount <= game.current_bet
        \/ kind \notin {"fold", "check", "call", "raise"}
      betAmount ==
        CASE kind = "call" -> callBet(amountToCall, balance)
          [] kind = "raise" -> raiseBet(raiseAmount, playerHand.current_bet, balance)
          [] OTHER -> 0
      hand1 == [applyBet(playerHand, betAmount) EXCEPT
                  !.folded = IF kind = "fold" THEN TRUE ELSE @]
      g1 == [game EXCEPT !.player_hands[p] = hand1,
                         !.pot = @ + betAmount,
                         !.current_bet = IF kind = "raise" THEN hand1.current_bet ELSE @,
                         !.last_raiser = IF kind = "raise" THEN p ELSE @]
      acc1 == addBalance(acc, p, -betAmount)
      seats1 == addSeatBalance(t.seats, p, -betAmount)
      activePlayers == notFolded(g1)
      activeSeats == AscSeq({i \in SeatIdx :
                        /\ seats1[i].id # 0
                        /\ findIndex(activePlayers, seats1[i].id) # -1})
      activeIds == [k \in DOMAIN activeSeats |-> seats1[activeSeats[k]].id]
      n == Len(activeSeats)
      currentSeatIndex == findIndex(activeIds, p)
      \* NaN when there is no active seat: -2 is no index
      nextPlayerIndex == IF n = 0 THEN -2 ELSE (currentSeatIndex + 1) % n
      allMatched ==
        \A k \in DOMAIN activePlayers :
           \/ g1.player_hands[activePlayers[k]].current_bet = g1.current_bet
           \/ g1.player_hands[activePlayers[k]].folded
      lastRaiserIndex == findIndex(activeIds, g1.last_raiser)
      backToRaiser == nextPlayerIndex = lastRaiserIndex /\ allMatched
      written(g) == [t EXCEPT !.game = g, !.seats = seats1]
      sub(r) == [table |-> r.table, accounts |-> r.accounts,
                 result |-> IF r.threw THEN "threw" ELSE "accepted",
                 timer |-> r.timer, evaluated |-> r.evaluated, bet |-> betAmount]
  IN IF rejected
     THEN rejectedResponse(t, acc, p)
     ELSE IF Len(activePlayers) = 1
     THEN sub(resolveShowdown(written([g1 EXCEPT !.phase = "showdown"]), acc1))
     ELSE IF allMatched /\ (backToRaiser \/ g1.last_raiser = 0 \/ kind = "check")
     THEN sub(advancePhase(written(g1), acc1))
     ELSE IF n = 0
     \* nextPlayer is undefined: reading nextPlayer.moltbook_id throws
     \* after the account update and before the table is written
     THEN [table |-> t, accounts |-> acc1, result |-> "threw",
           timer |-> FALSE, evaluated |-> FALSE, bet |-> betAmount]
     ELSE [table |-> written([g1 EXCEPT
                       !.current_turn_index = nextPlayerIndex,
                       !.current_turn_player = activeIds[nextPlayerIndex + 1]]),
           accounts |-> acc1, result |-> "accepted",
           timer |-> FALSE, evaluated |-> FALSE, bet |-> betAmount]

\* ------------------------------------------------------------------------
\* The state machine
\* ------------------------------------------------------------------------
VARIABLES
  table,         \* the table document (seats, seats_count, status, game)
  accounts,      \* the accounts collection: balance, current_table set
  timers,        \* pending setTimeout callbacks, in firing order
  handsStarted,  \* hands dealt at this table so far
  requests,      \* requests served so far
  leaves,        \* leave requests served so far
  arrived,       \* the accounts that have come to the table so far
  log,           \* the accepted actions of the hand dealt last, in order
  roundStart,    \* the length of log when the current betting round began
  dealerSeat,    \* the seat of the dealer when the hand dealt last began
  inflight,      \* an action handler between its read of the table and its write
  evals,         \* calls of evaluateHand and compareHands followed on their own
  joining,       \* a findTable handler between its read of the table and its write
  last           \* the request or callback that changed the state last

vars == <<table, accounts, timers, handsStarted, requests, leaves, arrived, log, roundStart,
          dealerSeat, inflight, evals, joining, last>>

\* the Math.random draws of a shuffle that puts Qc Qd 9s 9h 2h 7d 9c Js Kh
\* Qh 10d on top of the deck: two players get Qc Qd and 9s 9h on the board
\* 2h 7d 9c Js Kh; three players get Qc Qd, 9s 9h and 2h 7d on the board
\* 9c Js Kh Qh 10d, a straight that all of them play
RndQueensNines ==
  <<0, 0, 3, 0, 4, 2, 3, 1, 4, 4, 1, 2, 3, 4, 5, 6, 8, 9, 12, 13, 14,
  15, 16, 17, 19, 20, 22, 24, 25, 26, 27, 28, 29, 30, 31, 32, 34, 35,
  37, 38, 39, 40, 41, 42, 43, 44, 45, 47, 49, 50, 51>>
Shuffles == {RndQueensNines}

NoRequest == [op |-> "init", player |-> 0, kind |-> "", amount |-> 0,
              result |-> "", evaluated |-> FALSE]

\* no call of the evaluator is followed on its own
NoEvals == [calls |-> <<>>, compared |-> FALSE, result |-> 0]

\* no action handler is between its read and its write
NoWrite == [active |-> FALSE, player |-> 0, kind |-> "", amount |-> 0, bet |-> 0,
            game |-> NoGame, seats |-> NoTable.seats]

\* no findTable handler is between its read and its write
NoJoin == [active |-> FALSE, player |-> 0, seat |-> 0, balance |-> 0, starts |-> FALSE]

Init ==
  /\ table = NoTable
  /\ \E b \in StartProfiles :
       accounts = [p \in Players |-> [balance |-> b[p], current_table |-> FALSE]]
  /\ timers = <<>>
  /\ handsStarted = 0
  /\ requests = 0
  /\ leaves = 0
  /\ arrived = {}
  /\ log = <<>>
  /\ roundStart = 0
  /\ dealerSeat = -1
  /\ inflight = NoWrite
  /\ joining = NoJoin
  /\ evals = NoEvals
  /\ last = NoRequest

\* the seat of the dealer of the hand of table document t:
\* seats.findIndex(s => s && game.active_players[game.dealer_index] === s.moltbook_id)
dealerSeatOf(t) == seatIndexOf(t.seats, t.game.active_players[t.game.dealer_index + 1])

\* setTimeout(..., 5000) fires after every callback already pending
scheduleHand(q) == q \o <<"hand">>

\* setTimeout(..., 1000) fires after the join callbacks already pending,
\* before or after a pending inter-hand callback
scheduleJoinAt(q, k) == SubSeq(q, 1, k) \o <<"join">> \o SubSeq(q, k + 1, Len(q))
joinSlots(q) ==
  LET J == {i \in DOMAIN q : q[i] = "join"}
      lastJoin == IF J = {} THEN 0 ELSE CHOOSE i \in J : \A j \in J : j <= i
  IN lastJoin..Len(q)

\* POST /api/poker/findTable by an account that is not seated; the table
\* is the one findOrCreateAvailableTable returns (a join that finds this
\* table unavailable is seated at another table, which is not modelled).
\* The accounts first come to the table in the order of their ids: the
\* code treats all ids alike.
FindTable(p) ==
  LET t0 == IF table.exists THEN table ELSE [NoTable EXCEPT !.exists = TRUE]
      E == {i \in SeatIdx : t0.seats[i].id = 0}
      emptySeatIndex == CHOOSE i \in E : \A j \in E : i <= j
      seatData == [id |-> p, balance |-> accounts[p].balance]
      newSeatsCount == t0.seats_count + 1
      starts == newSeatsCount >= MIN_PLAYERS_TO_START
                  /\ (~t0.game.exists \/ t0.status = "waiting")
  IN /\ accounts[p].balance > 0
     /\ ~accounts[p].current_table
     /\ \A q \in Players : q < p => q \in arrived
     /\ arrived' = arrived \cup {p}
     /\ ~table.exists \/ (table.seats_count < SEATS_PER_TABLE /\ table.status = "waiting")
     /\ Len(timers) < MaxTimers
     /\ table' = [t0 EXCEPT !.seats[emptySeatIndex] = seatData,
                            !.seats_count = newSeatsCount]
     /\ accounts' = [accounts EXCEPT ![p].current_table = TRUE]
     /\ IF starts
        THEN \E k \in joinSlots(timers) : timers' = scheduleJoinAt(timers, k)
        ELSE timers' = timers
     /\ last' = [NoRequest EXCEPT !.op = "findTable", !.player = p, !.result = "accepted"]
     /\ requests < MaxRequests
     /\ requests' = requests + 1
     /\ UNCHANGED <<handsStarted, leaves, log, roundStart, dealerSeat, inflight, evals, joining>>

\* POST /api/poker/leave by a seated account
Leave(p) ==
  LET seatIndex == seatIndexOf(table.seats, p)
      g == IF table.game.exists /\ table.game.player_hands[p].dealt
           THEN [table.game EXCEPT !.player_hands[p].folded = TRUE]
           ELSE table.game
  IN /\ accounts[p].current_table
     /\ leaves < MaxLeaves
     /\ leaves' = leaves + 1
     /\ requests < MaxRequests
     /\ requests' = requests + 1
     /\ table' = IF seatIndex # -1
                 THEN [table EXCEPT !.seats[seatIndex] = NoSeat,
                                    !.game = g,
                                    !.seats_count = @ - 1]
                 ELSE table
     /\ accounts' = [accounts EXCEPT ![p].current_table = FALSE]
     /\ last' = [NoRequest EXCEPT !.op = "leave", !.player = p, !.result = "accepted"]
     /\ UNCHANGED <<timers, handsStarted, arrived, log, roundStart, dealerSeat, inflight, evals, joining>>

\* POST /api/poker/action
Action(p, kind, amount) ==
  \E r \in {handleAction(table, accounts, p, kind, amount)} :
     /\ table.exists
     /\ requests < MaxRequests
     /\ table' = r.table
     /\ accounts' = r.accounts
     /\ timers' = IF r.timer THEN scheduleHand(timers) ELSE timers
     /\ last' = IF r.result = "rejected" THEN last
                ELSE [op |-> "action", player |-> p, kind |-> kind, amount |-> amount,
                      result |-> r.result, evaluated |-> r.evaluated]
     /\ requests' = IF r.result = "rejected" THEN requests ELSE requests + 1
     /\ log' = IF r.result = "accepted"
               THEN Append(log, [player |-> p, kind |-> kind, bet |-> r.bet])
               ELSE log
     /\ roundStart' = IF r.table.game.phase # table.game.phase
                      THEN Len(log')
                      ELSE roundStart
     /\ UNCHANGED <<handsStarted, leaves, arrived, dealerSeat, inflight, evals, joining>>

\* the callback of findTable's setTimeout: startNewHand
JoinTimer(rnd) ==
  /\ timers # <<>> /\ timers[1] = "join"
  /\ \E r \in {startNewHand(table, accounts, rnd)} :
     /\ r.started => handsStarted < MaxHands
     /\ table' = r.table
     /\ accounts' = r.accounts
     /\ timers' = Tail(timers)
     /\ handsStarted' = IF r.started THEN handsStarted + 1 ELSE handsStarted
     /\ last' = [NoRequest EXCEPT !.op = "joinTimer",
                                  !.result = IF r.started THEN "started" ELSE "none"]
     /\ log' = IF r.started THEN <<>> ELSE log
     /\ roundStart' = IF r.started THEN 0 ELSE roundStart
     /\ dealerSeat' = IF r.started THEN dealerSeatOf(r.table) ELSE dealerSeat
     /\ UNCHANGED <<requests, leaves, arrived, inflight, evals, joining>>

\* the callback of resolveShowdown's setTimeout: the next hand, or back
\* to waiting
HandTimer(rnd) ==
  /\ timers # <<>> /\ timers[1] = "hand"
  /\ \E enough \in {Len(activeSeatsAtStart(table)) >= MIN_PLAYERS_TO_START},
        r \in {startNewHand(table, accounts, rnd)} :
     /\ enough => handsStarted < MaxHands
     /\ table' = IF enough THEN r.table
                 ELSE [table EXCEPT !.status = "waiting", !.game = NoGame]
     /\ accounts' = IF enough THEN r.accounts ELSE accounts
     /\ timers' = Tail(timers)
     /\ handsStarted' = IF enough THEN handsStarted + 1 ELSE handsStarted
     /\ last' = [NoRequest EXCEPT !.op = "handTimer",
                                  !.result = IF enough THEN "started" ELSE "waiting"]
     /\ log' = <<>>
     /\ roundStart' = 0
     /\ dealerSeat' = IF enough THEN dealerSeatOf(r.table) ELSE dealerSeat
     /\ UNCHANGED <<requests, leaves, arrived, inflight, evals, joining>>

Next ==
  \/ \E p \in Players : FindTable(p)
  \/ \E p \in Players : Leave(p)
  \/ \E p \in Players, kind \in ActionKinds :
       \E amount \in (IF kind = "raise" THEN RaiseAmounts ELSE {0}) : Action(p, kind, amount)
  \/ \E rnd \in Shuffles : JoinTimer(rnd)
  \/ \E rnd \in Shuffles : HandTimer(rnd)

Spec == Init /\ [][Next]_vars

\* ------------------------------------------------------------------------
\* The action handler is an async function: between its findOne of the
\* table (line 741) and its updateOne of the table (lines 882, 894) it
\* awaits, and another request or a setTimeout callback can run.
\* ActionRead is the handler up to the write, computed on the document it
\* read; ActionWrite is the $inc of the account (lines 795, 828) and the
\* $set of game and seats.  Only requests that do not go on to
\* resolveShowdown are split; the others are served in one step (Action).
\* ------------------------------------------------------------------------
ActionRead(p, kind, amount) ==
  /\ table.exists
  /\ requests < MaxRequests
  /\ ~inflight.active
  /\ \E r \in {handleAction(table, accounts, p, kind, amount)} :
       /\ r.result = "accepted"
       /\ ~r.timer
       /\ inflight' = [active |-> TRUE, player |-> p, kind |-> kind, amount |-> amount,
                       bet |-> r.bet, game |-> r.table.game, seats |-> r.table.seats]
  /\ requests' = requests + 1
  /\ UNCHANGED <<table, accounts, timers, handsStarted, leaves, arrived, log, roundStart,
                 dealerSeat, evals, joining, last>>

ActionWrite ==
  /\ inflight.active
  /\ table' = [table EXCEPT !.game = inflight.game, !.seats = inflight.seats]
  /\ accounts' = [accounts EXCEPT ![inflight.player].balance = @ - inflight.bet]
  /\ inflight' = NoWrite
  /\ last' = [op |-> "action", player |-> inflight.player, kind |-> inflight.kind,
              amount |-> inflight.amount, result |-> "accepted", evaluated |-> FALSE]
  /\ log' = Append(log, [player |-> inflight.player, kind |-> inflight.kind,
                         bet |-> inflight.bet])
  /\ roundStart' = IF inflight.game.phase # table.game.phase THEN Len(log') ELSE roundStart
  /\ UNCHANGED <<timers, handsStarted, requests, leaves, arrived, dealerSeat, evals, joining>>

RaceNext ==
  \/ Next
  \/ \E p \in Players, kind \in ActionKinds :
       \E amount \in (IF kind = "raise" THEN RaiseAmounts ELSE {0}) : ActionRead(p, kind, amount)
  \/ ActionWrite

RaceSpec == Init /\ [][RaceNext]_vars

\* ------------------------------------------------------------------------
\* Shorthands used by the properties
\* ------------------------------------------------------------------------
BettingPhases == {"pre_flop", "flop", "turn", "river"}
bettingOpen == table.game.exists /\ table.game.phase \in BettingPhases
dealtIn(g) == {p \in Players : g.player_hands[p].dealt}
live(g) == {p \in Players : g.player_hands[p].dealt /\ ~g.player_hands[p].folded}

RECURSIVE SumOver(_, _)
SumOver(S, f) ==
  IF S = {} THEN 0
  ELSE LET x == CHOOSE y \in S : TRUE IN f[x] + SumOver(S \ {x}, f)

game == table.game
hands == table.game.player_hands
turn == table.game.current_turn_player
seated(p) == seatIndexOf(table.seats, p) # -1
seatBalance(p) == table.seats[seatIndexOf(table.seats, p)].balance

\* the accepted actions of the current betting round
roundLog == SubSeq(log, roundStart + 1, Len(log))
actedThisRound == {roundLog[k].player : k \in DOMAIN roundLog}
foldedByAction == {log[k].player : k \in {j \in DOMAIN log : log[j].kind = "fold"}}

\* the step just taken applied an action request of the given kind
applied(kind) ==
  /\ last'.op = "action" /\ last'.kind = kind /\ last'.result = "accepted"
  /\ requests' = requests + 1

MaxOf(S) == CHOOSE x \in S : \A y \in S : y <= x
MinOf(S) == CHOOSE x \in S : \A y \in S : x <= y

\* the live player in the first occupied seat clockwise after p's seat
\* (0 when p is not seated or nobody else is live)
nextLiveAfter(p) ==
  LET from == seatIndexOf(table.seats, p)
      steps == {i \in 1..(SEATS_PER_TABLE - 1) :
                  table.seats[(from + i) % SEATS_PER_TABLE].id \in live(game)}
  IN IF from = -1 \/ steps = {} THEN 0
     ELSE table.seats[(from + MinOf(steps)) % SEATS_PER_TABLE].id

\* ------------------------------------------------------------------------
\* C1: whenever a hand exists, the pot equals the sum of the cumulative
\* bets (total_bet) of the players dealt into the hand.
\* ------------------------------------------------------------------------
C1_PotIsSumOfTotalBets ==
  game.exists =>
    game.pot = SumOver(dealtIn(game), [p \in Players |-> hands[p].total_bet])

\* a hand in which a call or a raise has moved chips into the pot
C1_Witness ==
  /\ game.exists
  /\ last.op = "action" /\ last.kind \in {"call", "raise"} /\ last.result = "accepted"
  /\ game.pot > BLINDS_SMALL + BLINDS_BIG

\* ------------------------------------------------------------------------
\* C2: while betting is open, the current bet equals the largest
\* current-round bet among the players who have not folded.
\* ------------------------------------------------------------------------
C2_CurrentBetIsMaxLiveBet ==
  (bettingOpen /\ live(game) # {}) =>
    game.current_bet = MaxOf({hands[p].current_bet : p \in live(game)})

\* ------------------------------------------------------------------------
\* C3: every seat balance and every account balance is at least 0.
\* ------------------------------------------------------------------------
C3_BalancesNonNegative ==
  /\ \A i \in SeatIdx : table.seats[i].balance >= 0
  /\ \A p \in Players : accounts[p].balance >= 0

\* ------------------------------------------------------------------------
\* C4: while betting is open, the current-turn player is a player dealt
\* into the hand who has not folded, is still seated and has chips left.
\* ------------------------------------------------------------------------
C4_TurnHolderCanAct ==
  bettingOpen =>
    /\ turn \in live(game)
    /\ seated(turn)
    /\ seatBalance(turn) > 0

\* ------------------------------------------------------------------------
\* C5: on a street with no bet, a check closes the betting round only when
\* every player who has not folded has acted in that round.
\* ------------------------------------------------------------------------
C5_NoBetRoundClosesAfterAllActed ==
  [][(/\ applied("check")
      /\ bettingOpen
      /\ game.current_bet = 0 /\ game.last_raiser = 0
      /\ table'.game.phase # game.phase)
     => live(game) \subseteq (actedThisRound \cup {last'.player})]_vars

\* ------------------------------------------------------------------------
\* C6: when the first actor A of a street checks, the next player B can
\* raise on that same street, and that raise leaves the round open with A
\* still to act.
\* ------------------------------------------------------------------------
C6_RaiseAfterFirstCheckReopens ==
  [][(/\ applied("check")
      /\ bettingOpen
      /\ roundLog = <<>>
      /\ last'.player \in live(game)
      /\ nextLiveAfter(last'.player) # 0)
     => \A amount \in RaiseAmounts :
          LET A == last'.player
              B == nextLiveAfter(A)
              r == handleAction(table', accounts', B, "raise", amount)
          IN amount > 0 =>
               /\ r.result = "accepted"
               /\ r.table.game.phase = game.phase
               /\ A \in live(r.table.game)]_vars

\* ------------------------------------------------------------------------
\* C7: a player who called all-in for less than the current bet does not
\* keep the round open: once every other live player has matched the
\* current bet and the action is back on the last aggressor, the round
\* has closed (so no such state is seen with betting still open).
\* ------------------------------------------------------------------------
shortAllIn(p) ==
  /\ p \in live(game)
  /\ seated(p) /\ seatBalance(p) = 0
  /\ hands[p].current_bet < game.current_bet
  /\ \E k \in DOMAIN roundLog :
       roundLog[k].player = p /\ roundLog[k].kind = "call" /\ roundLog[k].bet > 0

C7_ShortAllInDoesNotHoldRound ==
  ~ (/\ bettingOpen
     /\ game.last_raiser # 0 /\ turn = game.last_raiser
     /\ \E p \in Players : shortAllIn(p)
     /\ \A p \in live(game) : shortAllIn(p) \/ hands[p].current_bet = game.current_bet)

\* ------------------------------------------------------------------------
\* C8: two players with 100 chips each, blinds 1/2: the pot starts at 3
\* with current bet 2 and the small blind to act; the small blind's call
\* makes the pot 4 and passes the turn to the big blind; after the big
\* blind's check the flop of 3 cards is out and the current bet is 0.
\* ------------------------------------------------------------------------
headsUp100 ==
  /\ game.exists /\ game.phase = "pre_flop"
  /\ Len(game.active_players) = 2
  /\ \A k \in 1..2 :
       LET p == game.active_players[k]
       IN seated(p) /\ seatBalance(p) + hands[p].total_bet = STARTING_BALANCE
                    /\ ~hands[p].folded

smallBlind == CHOOSE p \in live(game) : hands[p].total_bet = BLINDS_SMALL
bigBlind == CHOOSE p \in live(game) : p # smallBlind

C8_HeadsUpOpening ==
  [][/\ (headsUp100 /\ log = <<>>) =>
          /\ game.pot = BLINDS_SMALL + BLINDS_BIG
          /\ game.current_bet = BLINDS_BIG
          /\ turn = smallBlind
     /\ (headsUp100 /\ log = <<>> /\ applied("call")) =>
          /\ table'.game.pot = 4
          /\ table'.game.phase = "pre_flop"
          /\ table'.game.current_turn_player = bigBlind
     /\ (/\ headsUp100
         /\ Len(log) = 1 /\ log[1].player = smallBlind /\ log[1].kind = "call"
         /\ applied("check")) =>
          /\ table'.game.phase = "flop"
          /\ Len(table'.game.community_cards) = 3
          /\ table'.game.current_bet = 0]_vars

\* ------------------------------------------------------------------------
\* C9: an accepted fold that leaves exactly one player who has not folded
\* ends the hand at once: that player's balance grows by exactly the pot,
\* no community card is added and no hand is evaluated.
\* ------------------------------------------------------------------------
C9_FoldToOneEndsHand ==
  [][(applied("fold") /\ Cardinality(live(table'.game)) = 1)
     => LET w == CHOOSE p \in Players : p \in live(table'.game)
        IN /\ accounts'[w].balance = accounts[w].balance + game.pot
           /\ seated(w)
           /\ table'.seats[seatIndexOf(table.seats, w)].balance = seatBalance(w) + game.pot
           /\ \A p \in Players \ {w} : accounts'[p].balance = accounts[p].balance
           /\ table'.status = "hand_complete"
           /\ table'.game.phase = "waiting"
           /\ table'.game.community_cards = game.community_cards
           /\ table'.game.winners = game.winners
           /\ ~last'.evaluated]_vars

\* a hand that a pre-flop fold has just ended with no card on the board
C9_Witness ==
  /\ last.op = "action" /\ last.kind = "fold" /\ last.result = "accepted"
  /\ game.exists /\ Cardinality(live(game)) = 1
  /\ table.status = "hand_complete"
  /\ game.community_cards = <<>>
  /\ game.pot > 0

\* ------------------------------------------------------------------------
\* C10: a player who has folded is never again the current-turn player of
\* that hand, and no further action of that player is accepted.
\* ------------------------------------------------------------------------
C10_FoldedPlayerIsOut ==
  game.exists =>
    \A p \in foldedByAction :
      /\ turn # p
      /\ \A kind \in ActionKinds :
           \A amount \in (IF kind = "raise" THEN RaiseAmounts ELSE {0}) :
             handleAction(table, accounts, p, kind, amount).result = "rejected"

\* ------------------------------------------------------------------------
\* Shorthands of the action properties
\* ------------------------------------------------------------------------

\* the step just taken applied an action request (any kind) with a 200
\* response; last'.player is the acting player
accepted ==
  /\ last'.op = "action" /\ last'.result = "accepted"
  /\ requests' = requests + 1

\* the player of the hand of table document t, not folded, in the first
\* seat clockwise (increasing index, wrapping) after p's seat; 0 when p has
\* no seat or nobody else is left
clockwiseAfter(t, p) ==
  LET from == seatIndexOf(t.seats, p)
      steps == {i \in 1..(SEATS_PER_TABLE - 1) :
                  t.seats[(from + i) % SEATS_PER_TABLE].id \in live(t.game)}
  IN IF from = -1 \/ steps = {} THEN 0
     ELSE t.seats[(from + MinOf(steps)) % SEATS_PER_TABLE].id

\* the current-turn player is a seated player of the hand who has not folded
turnHolderLive == turn \in live(game) /\ seated(turn)

\* ------------------------------------------------------------------------
\* C11: after an accepted action (of any kind, a fold included) of a seated
\* player who had not folded, which neither closes the betting round nor
\* ends the hand, the turn is with the first player who has not folded
\* clockwise after the acting player's seat.
\* ------------------------------------------------------------------------
C11_NextTurnIsClockwise ==
  [][(/\ accepted
      /\ bettingOpen
      /\ last'.player \in live(game) /\ seated(last'.player)
      /\ table'.game.phase = game.phase
      /\ Cardinality(live(table'.game)) >= 2)
     => table'.game.current_turn_player = clockwiseAfter(table', last'.player)]_vars

\* ------------------------------------------------------------------------
\* C12: a check of the current-turn player is accepted if and only if the
\* player's current-round bet B equals the current bet C; when B differs
\* from C the check is rejected and table and balances are unchanged.
\* ------------------------------------------------------------------------
C12_CheckIffBetMatches ==
  (bettingOpen /\ turnHolderLive) =>
    LET r == handleAction(table, accounts, turn, "check", 0)
    IN /\ (r.result # "rejected") <=> (hands[turn].current_bet = game.current_bet)
       /\ hands[turn].current_bet # game.current_bet
            => r.table = table /\ r.accounts = accounts

\* ------------------------------------------------------------------------
\* C13: a call of the current-turn player whose current-round bet B is not
\* below the current bet C (C <= B) is rejected and changes nothing.
\* ------------------------------------------------------------------------
C13_CallOnlyWhenBetOwed ==
  (bettingOpen /\ turnHolderLive /\ game.current_bet <= hands[turn].current_bet) =>
    LET r == handleAction(table, accounts, turn, "call", 0)
    IN r.result = "rejected" /\ r.table = table /\ r.accounts = accounts

\* the amounts tried in a raise request: none (0), below, at and above the
\* blinds, and the amounts the players of the model send
RaiseProbes == {0, 1, 2, 3, 40} \cup RaiseAmounts

\* ------------------------------------------------------------------------
\* C14: a raise of the current-turn player to a proposed total R is
\* rejected without any change when R <= C; when it is accepted it moves
\* exactly min(R - B, balance) from the raiser's balance to the pot, the
\* current bet becomes the raiser's new current-round bet and the raiser
\* is the last aggressor.
\* ------------------------------------------------------------------------
C14_RaiseSemantics ==
  (bettingOpen /\ turnHolderLive) =>
    \A amount \in RaiseProbes :
      LET p == turn
          B == hands[p].current_bet
          C == game.current_bet
          R == IF amount # 0 THEN amount ELSE 2 * C
          bal == accounts[p].balance
          m == IF R - B < bal THEN R - B ELSE bal
      IN \A r \in {handleAction(table, accounts, p, "raise", amount)} :
           /\ R <= C => r.result = "rejected" /\ r.table = table /\ r.accounts = accounts
           /\ r.result = "accepted" =>
                /\ R > C
                /\ r.bet = m
                /\ r.table.game.pot = game.pot + m
                /\ r.accounts[p].balance
                     = bal - m + (IF r.timer THEN r.table.game.pot ELSE 0)
                /\ r.table.game.player_hands[p].current_bet = B + m
                /\ r.table.game.current_bet = B + m
                /\ r.table.game.last_raiser = p

\* a raise to 20 has just been applied: the raiser is the last aggressor
\* with the current bet, and a further raise to 20 is not above it
C14_Witness ==
  /\ bettingOpen
  /\ last.op = "action" /\ last.kind = "raise" /\ last.result = "accepted"
  /\ game.last_raiser = last.player
  /\ game.current_bet = hands[last.player].current_bet
  /\ game.current_bet \in RaiseAmounts
  /\ turnHolderLive /\ turn # last.player

\* the step just taken is an accepted action that closed the betting
\* round: the phase moved on with more than one player not folded
roundCloses ==
  /\ accepted
  /\ bettingOpen
  /\ table'.game.phase # game.phase
  /\ Cardinality(live(table'.game)) # 1

\* positions of the raises in the accepted actions of the current round
raisesOfRound == {k \in DOMAIN roundLog : roundLog[k].kind = "raise"}

\* ------------------------------------------------------------------------
\* C15: when a betting round closes after a raise, every other player who
\* has not folded has acted (call, raise, check or fold request) at least
\* once after the last raise of the round.
\* ------------------------------------------------------------------------
C15_RaiseReopensAction ==
  [][(roundCloses /\ raisesOfRound # {})
     => LET k == MaxOf(raisesOfRound)
            X == roundLog[k].player
            after == {roundLog[j].player : j \in {i \in DOMAIN roundLog : i > k}}
                       \cup {last'.player}
        IN (live(table'.game) \ {X}) \subseteq after]_vars

\* the table document and the accounts of the current state with the
\* balance of player p replaced by b (account and seat)
withBalance(p, b) ==
  [table |-> [table EXCEPT !.seats[seatIndexOf(table.seats, p)].balance = b],
   accounts |-> [accounts EXCEPT ![p].balance = b]]

\* ------------------------------------------------------------------------
\* C16: an accepted call of the current-turn player moves exactly
\* min(C - B, balance) from the caller's balance to the pot and adds it to
\* the caller's current-round and cumulative bets (the current-round bets
\* are reset when the call closes the round; the balance is compared when
\* the call does not end the hand).  A caller with balance 5 who faces a
\* call of 20 pays exactly 5 and is left with balance 0.
\* ------------------------------------------------------------------------
C16_CallTransfersMinOfOwedAndBalance ==
  [][/\ (applied("call") /\ bettingOpen /\ last'.player \in live(game)
           /\ seated(last'.player))
        => LET p == last'.player
               B == hands[p].current_bet
               C == game.current_bet
               bal == accounts[p].balance
               m == IF C - B < bal THEN C - B ELSE bal
               g == table'.game
           IN /\ log'[Len(log')].bet = m
              /\ g.pot = game.pot + m
              /\ g.player_hands[p].total_bet = hands[p].total_bet + m
              /\ g.phase = game.phase => g.player_hands[p].current_bet = B + m
              /\ table'.status = table.status =>
                   /\ accounts'[p].balance = bal - m
                   /\ table'.seats[seatIndexOf(table.seats, p)].balance
                        = seatBalance(p) - m
     /\ (bettingOpen /\ turnHolderLive
           /\ game.current_bet - hands[turn].current_bet = 20)
        => LET five == withBalance(turn, 5)
               r5 == handleAction(five.table, five.accounts, turn, "call", 0)
           IN /\ r5.result = "accepted"
              /\ r5.bet = 5
              /\ r5.table.game.pot = game.pot + 5
              /\ ~r5.timer => r5.accounts[turn].balance = 0]_vars

\* a call for less than the amount owed has just been applied: the caller
\* is all-in with a current-round bet below the current bet
C16_Witness ==
  /\ bettingOpen
  /\ last.op = "action" /\ last.kind = "call" /\ last.result = "accepted"
  /\ accounts[last.player].balance = 0
  /\ hands[last.player].current_bet > 0
  /\ hands[last.player].current_bet < game.current_bet

\* a player with no bet in the round faces a call of 20
facingCallOfTwenty ==
  /\ bettingOpen /\ turnHolderLive
  /\ hands[turn].current_bet = 0 /\ game.current_bet = 20

\* ------------------------------------------------------------------------
\* C17: an action request that is rejected leaves the table record (seats,
\* hand state) and every balance unchanged and schedules nothing; requests
\* of a player who is not the current-turn player, of an unknown kind,
\* without an action, for a missing table, a check while a bet is owed and
\* a raise not above the current bet are all rejected.
\* ------------------------------------------------------------------------
C17_RejectedChangesNothing ==
  \A p \in Players, kind \in ActionKinds :
    \A amount \in (IF kind = "raise" THEN RaiseProbes ELSE {0}) :
      LET R == IF amount # 0 THEN amount ELSE 2 * game.current_bet
          mustReject ==
            \/ ~table.exists
            \/ ~game.exists
            \/ turn # p
            \/ kind \notin {"fold", "check", "call", "raise"}
            \/ kind = "check" /\ game.current_bet > hands[p].current_bet
            \/ kind = "raise" /\ R <= game.current_bet
      IN mustReject =>
           \A r \in {handleAction(table, accounts, p, kind, amount)} :
             /\ r.result = "rejected"
             /\ r.table = table /\ r.accounts = accounts /\ ~r.timer

\* a hand in play in which a request of each rejected sort exists: a
\* player who is not the turn holder, a check while a bet is owed and a
\* raise not above the current bet
C17_Witness ==
  /\ bettingOpen /\ turnHolderLive
  /\ \E p \in live(game) : p # turn
  /\ game.current_bet > hands[turn].current_bet
  /\ \E amount \in RaiseAmounts : amount <= game.current_bet
  /\ handleAction(table, accounts, turn, "check", 0).result = "rejected"

\* ------------------------------------------------------------------------
\* C18: when an action closes the betting round in pre_flop, flop or turn,
\* exactly 3, 1 and 1 cards are appended to the community cards, the phase
\* moves to the next street, the table's current bet and every player's
\* current-round bet are 0 and the last raiser is cleared; when it closes
\* the river no card is added and the showdown is resolved (hands
\* evaluated, hand complete).  While betting is open the board holds 0
\* cards in pre_flop, 3 in flop, 4 in turn and 5 in river.
\* ------------------------------------------------------------------------
C18_StreetClosure ==
  /\ [](bettingOpen =>
          Len(game.community_cards) =
            (CASE game.phase = "pre_flop" -> 0
               [] game.phase = "flop" -> 3
               [] game.phase = "turn" -> 4
               [] game.phase = "river" -> 5))
  /\ [][roundCloses =>
          LET g == table'.game
              n == Len(game.community_cards)
          IN IF game.phase = "river"
             THEN /\ g.community_cards = game.community_cards
                  /\ last'.evaluated
                  /\ table'.status = "hand_complete"
                  /\ g.phase = "waiting"
             ELSE /\ g.phase = (CASE game.phase = "pre_flop" -> "flop"
                                  [] game.phase = "flop" -> "turn"
                                  [] game.phase = "turn" -> "river")
                  /\ Len(g.community_cards) =
                       n + (CASE game.phase = "pre_flop" -> 3
                              [] game.phase = "flop" -> 1
                              [] game.phase = "turn" -> 1)
                  /\ SubSeq(g.community_cards, 1, n) = game.community_cards
                  /\ g.current_bet = 0
                  /\ \A p \in dealtIn(g) : g.player_hands[p].current_bet = 0
                  /\ g.last_raiser = 0
                  /\ table'.status = "playing"]_vars

\* the player in the first seat clockwise after seat `from` of table
\* document t that holds a member of S (0 when there is none)
firstClockwiseAfter(t, from, S) ==
  LET steps == {i \in 1..SEATS_PER_TABLE : t.seats[(from + i) % SEATS_PER_TABLE].id \in S}
  IN IF steps = {} THEN 0
     ELSE t.seats[(from + MinOf(steps)) % SEATS_PER_TABLE].id

\* the step just taken dealt a hand
handDealt == handsStarted' = handsStarted + 1

\* the step just taken closed the betting round of pre_flop, flop or turn
\* with at least two players still in the hand
streetOpens ==
  /\ roundCloses
  /\ table'.game.phase \in {"flop", "turn", "river"}
  /\ Cardinality(live(table'.game)) >= 2

\* ------------------------------------------------------------------------
\* C19: when a hand is dealt, the player to act is the player of the hand
\* in the first seat clockwise after the big blind's seat; when the flop,
\* the turn or the river opens, the player to act is the player in the
\* first seat clockwise after the dealer's seat who has not folded.
\* ------------------------------------------------------------------------
C19_FirstToAct ==
  [][/\ handDealt =>
          LET g == table'.game
              bb == CHOOSE p \in dealtIn(g) : g.player_hands[p].total_bet = BLINDS_BIG
          IN g.current_turn_player
               = firstClockwiseAfter(table', seatIndexOf(table'.seats, bb), dealtIn(g))
     /\ streetOpens =>
          table'.game.current_turn_player
            = firstClockwiseAfter(table', dealerSeat, live(table'.game))]_vars

\* ------------------------------------------------------------------------
\* The server with its own scheduling: a callback that setTimeout has
\* queued runs (lines 574, 695); no request of a client is ever bound to
\* come.
\* ------------------------------------------------------------------------
FairSpec ==
  /\ Init
  /\ [][Next]_vars
  /\ WF_vars(\E rnd \in Shuffles : JoinTimer(rnd))
  /\ WF_vars(\E rnd \in Shuffles : HandTimer(rnd))

\* the hand in play waits for an action of player p
waitsOn(p) == bettingOpen /\ turn = p /\ p \in live(game)

\* ------------------------------------------------------------------------
\* C20: a hand never waits on a player for ever: whenever the hand in play
\* waits for an action of a player, eventually it no longer does (the
\* player has acted, or has been folded for not acting in time and the
\* turn has passed on or the hand has ended), whether or not any request
\* comes.
\* ------------------------------------------------------------------------
C20_SilentPlayerIsFolded ==
  \A p \in Players : waitsOn(p) ~> ~waitsOn(p)

\* the step just taken served a leave request of player p
left(p) == last'.op = "leave" /\ last'.player = p /\ leaves' = leaves + 1

\* ------------------------------------------------------------------------
\* C21: a leave request of a player who is in the hand in play acts on the
\* hand as a fold of that player: the player is marked folded and the seat
\* is cleared; when exactly one player who has not folded remains, the hand
\* ends and that player's balance grows by the pot; otherwise, when it was
\* the leaver's turn, the turn passes to a player who has not folded.
\* ------------------------------------------------------------------------
C21_LeaveActsAsFold ==
  [][\A p \in Players :
       (left(p) /\ bettingOpen /\ p \in live(game) /\ seated(p)) =>
         LET others == live(game) \ {p}
         IN /\ table'.game.player_hands[p].folded
            /\ seatIndexOf(table'.seats, p) = -1
            /\ Cardinality(others) = 1 =>
                 LET w == CHOOSE q \in others : TRUE
                 IN /\ table'.status = "hand_complete"
                    /\ accounts'[w].balance = accounts[w].balance + game.pot
            /\ (Cardinality(others) >= 2 /\ turn = p) =>
                 table'.game.current_turn_player \in others]_vars

\* the step just taken ran the callback that resolveShowdown scheduled
interHand == last'.op = "handTimer" /\ timers # <<>> /\ timers' = Tail(timers)

\* ------------------------------------------------------------------------
\* C22: when the inter-hand callback runs after a completed hand, every
\* seated player whose balance is below the big blind has the seat cleared
\* and is not dealt into the hand that the callback starts.
\* ------------------------------------------------------------------------
C22_ShortStacksAreRemoved ==
  [][(interHand /\ table.status = "hand_complete") =>
       \A p \in Players :
         (seated(p) /\ seatBalance(p) < BLINDS_BIG) =>
           /\ seatIndexOf(table'.seats, p) = -1
           /\ table'.game.exists => ~table'.game.player_hands[p].dealt]_vars

\* ------------------------------------------------------------------------
\* C23: the table holds a hand state exactly when its status is 'playing'
\* or 'hand_complete': with status 'waiting' there is no hand state, with
\* status 'playing' or 'hand_complete' there is one.
\* ------------------------------------------------------------------------
C23_HandStateIffPlaying ==
  table.exists =>
    /\ table.status \in {"waiting", "playing", "hand_complete"}
    /\ table.status = "waiting" => ~game.exists
    /\ table.status \in {"playing", "hand_complete"} => game.exists

\* the players seated with a positive balance: the active players of the
\* next deal
activeSeated == {p \in Players : seated(p) /\ seatBalance(p) > 0}

\* ------------------------------------------------------------------------
\* C24: when a hand is dealt at a table that holds the state of a hand
\* dealt before, the dealer of the new hand is the active player (seated,
\* balance > 0) in the first seat clockwise after the seat of the dealer of
\* that hand, whether or not players busted, left or joined in between.
\* ------------------------------------------------------------------------
C24_DealerMovesClockwise ==
  [][(handDealt /\ game.exists) =>
       table'.game.active_players[table'.game.dealer_index + 1]
         = firstClockwiseAfter(table, dealerSeat, activeSeated)]_vars

\* the inter-hand callbacks pending
pendingHandTimers == {i \in DOMAIN timers : timers[i] = "hand"}

\* the hand at the table has been paid out and the next has not begun
handIsComplete == table.exists /\ table.status = "hand_complete"

\* ------------------------------------------------------------------------
\* C25: a completed hand has exactly one inter-hand callback pending; when
\* the callback runs it deals a new hand if at least 2 seated players have
\* a positive balance and otherwise sets the table to 'waiting' with no
\* hand state; and a completed hand does not stay completed for ever
\* (as long as the model may deal another hand).
\* ------------------------------------------------------------------------
C25_CompletedHandIsFollowedOnce ==
  /\ [](handIsComplete => Cardinality(pendingHandTimers) = 1)
  /\ [][interHand =>
          IF Cardinality(activeSeated) >= MIN_PLAYERS_TO_START
          THEN /\ handDealt
               /\ table'.status = "playing"
               /\ table'.game.exists /\ table'.game.phase = "pre_flop"
          ELSE /\ table'.status = "waiting"
               /\ ~table'.game.exists]_vars
  /\ (handIsComplete /\ handsStarted < MaxHands) ~> ~handIsComplete

\* ------------------------------------------------------------------------
\* Showdowns.  A hand is followed from the deal to the opening of the river
\* by the turn holder's accepted folds, checks and calls, and the state
\* machine goes on
\* from there: the river round, the showdown and what comes after it.
\* ------------------------------------------------------------------------
\* Math.random draws that put Ah 2c Ad 3c 7s 8s Kh Kd 5c 9h Jd on top of
\* the deck: two players hold Ah 2c and Ad 3c on the board 7s 8s Kh Kd 5c
\* and tie; of three players, Ah 2c and Ad 3c tie on the board
\* Kh Kd 5c 9h Jd and beat 7s 8s
RndTwoTied ==
  <<1, 0, 3, 1, 0, 2, 6, 2, 7, 8, 10, 9, 13, 14, 15, 16, 17, 18, 19, 20,
  21, 8, 23, 6, 5, 4, 3, 28, 2, 30, 31, 32, 33, 34, 35, 36, 37, 38, 39,
  40, 41, 42, 43, 1, 0, 46, 47, 48, 49, 50, 51>>

\* draws that put Ah Kh 2c 2d 7s 8d 2s 9h Jc 4d Kc on top of the deck: of
\* three players, 2c 2d makes three of a kind on the board 2s 9h Jc 4d Kc
\* and beats the pair of Ah Kh and the high card of 7s 8d
RndTripsTwos ==
  <<0, 0, 3, 0, 5, 1, 7, 3, 6, 2, 10, 9, 8, 14, 6, 16, 17, 18, 5, 20, 21,
  22, 23, 24, 25, 4, 27, 28, 29, 30, 31, 32, 33, 34, 3, 36, 2, 38, 1, 40,
  41, 42, 43, 0, 45, 46, 47, 48, 49, 50, 51>>

ShowdownShuffles == Shuffles \cup {RndTwoTied, RndTripsTwos}

\* the requests followed before the river opens, and after it
MaxPrefix == 6
AfterRiver == 3

\* the table and the accounts once the accounts 1..n have joined with the
\* balances b (findTable: the lowest empty seat, current_table set)
seatedTable(n, b) ==
  [NoTable EXCEPT !.exists = TRUE,
                  !.seats = [i \in SeatIdx |->
                               IF i < n THEN [id |-> i + 1, balance |-> b[i + 1]] ELSE NoSeat],
                  !.seats_count = n]

seatedAccounts(n, b) ==
  [p \in Players |-> [balance |-> b[p], current_table |-> p <= n]]

\* the hands the join callback deals to two or three players
dealtHands ==
  {[table |-> r.table, accounts |-> r.accounts, log |-> <<>>, last |-> NoRequest] :
     r \in {startNewHand(seatedTable(n, b), seatedAccounts(n, b), rnd) :
              n \in 2..3, b \in StartProfiles, rnd \in ShowdownShuffles}}

turnRequests ==
  {<<"fold", 0>>, <<"check", 0>>, <<"call", 0>>}

\* the hands that follow s by one accepted request of the turn holder that
\* does not end the hand
afterTurn(s) ==
  LET p == s.table.game.current_turn_player
  IN {[table |-> x.r.table, accounts |-> x.r.accounts,
       log |-> Append(s.log, [player |-> p, kind |-> x.k[1], bet |-> x.r.bet]),
       last |-> [op |-> "action", player |-> p, kind |-> x.k[1], amount |-> x.k[2],
                 result |-> "accepted", evaluated |-> FALSE]] :
        x \in {y \in {[k |-> k, r |-> handleAction(s.table, s.accounts, p, k[1], k[2])] :
                        k \in turnRequests} :
                 y.r.result = "accepted" /\ ~y.r.timer}}

\* the hands of S that are at the river, and those that the hands of S
\* reach it in within k requests
RECURSIVE riverOpenings(_, _)
riverOpenings(S, k) ==
  LET R == {s \in S : s.table.game.phase = "river"}
  IN IF k = 0 \/ S = R THEN R
     ELSE R \cup riverOpenings(UNION {afterTurn(s) : s \in S \ R}, k - 1)

ShowdownInit ==
  \E s \in riverOpenings(dealtHands, MaxPrefix) :
     /\ table = s.table
     /\ accounts = s.accounts
     /\ timers = <<>>
     /\ handsStarted = 1
     /\ requests = MaxRequests - AfterRiver
     /\ leaves = 0
     /\ arrived = {p \in Players : s.accounts[p].current_table}
     /\ log = s.log
     /\ roundStart = Len(s.log)
     /\ dealerSeat = dealerSeatOf(s.table)
     /\ inflight = NoWrite
     /\ joining = NoJoin
     /\ evals = NoEvals
     /\ last = s.last

ShowdownSpec == ShowdownInit /\ [][Next]_vars

\* the step just taken is an accepted request that ended the betting and
\* ran determineWinners on the remaining players
showdown == accepted /\ last'.evaluated

\* the bet the request of the step just taken paid
betPaid == log'[Len(log')].bet

\* the evaluated hand of player p in table document t
handOf(t, p) == evaluateHand(t.game.player_hands[p].hole_cards, t.game.community_cards)

\* the remaining players of t whose hand no remaining player's hand beats
unbeaten(t) ==
  {p \in live(t.game) :
     \A q \in live(t.game) : compareHands(handOf(t, q), handOf(t, p)) >= 0}

\* ------------------------------------------------------------------------
\* C26: at a showdown with k >= 1 players tied for the best hand, each tied
\* player's balance (account and seat) grows by exactly floor(pot / k) and
\* no other player's balance changes, the bet of the closing request apart.
\* ------------------------------------------------------------------------
C26_TiedPlayersSplitThePot ==
  [][showdown =>
       \A T \in {unbeaten(table')} :
         \A share \in {table'.game.pot \div Cardinality(T)} :
           \A p \in Players :
             \A gain \in {(IF p \in T THEN share ELSE 0)
                            - (IF p = last'.player THEN betPaid ELSE 0)} :
               /\ accounts'[p].balance = accounts[p].balance + gain
               /\ seated(p) =>
                    table'.seats[seatIndexOf(table.seats, p)].balance = seatBalance(p) + gain]_vars

\* a hand just ended in a showdown that two players tied and whose pot was
\* odd: each was paid the half rounded down
C26_Witness ==
  /\ table.status = "hand_complete" /\ last.op = "action" /\ last.evaluated
  /\ Len(table.game.winners) = 2
  /\ table.game.pot % 2 = 1
  /\ \A k \in 1..2 : table.game.winners[k].pot_share = table.game.pot \div 2

\* the ids of game.winners of table document t
winnerIds(t) == {t.game.winners[k].moltbook_id : k \in DOMAIN t.game.winners}

\* the deal of the example: X (player 1) holds Qc Qd, Y (player 2) holds
\* 9s 9h, nobody else is in the hand and the board is 2h 7d 9c Js Kh
queensAgainstNines(t) ==
  /\ t.game.exists
  /\ live(t.game) = {1, 2}
  /\ t.game.player_hands[1].hole_cards = <<36, 23>>
  /\ t.game.player_hands[2].hole_cards = <<46, 7>>
  /\ t.game.community_cards = <<0, 18, 33, 48, 11>>

\* ------------------------------------------------------------------------
\* C27: at a showdown of two or more players who have not folded, the
\* winners are exactly the players whose evaluated hand no other remaining
\* player's hand beats, and a unique best hand is paid the entire pot.  On
\* the board 2h 7d 9c Js Kh, X with Qc Qd has one pair and Y with 9s 9h has
\* three of a kind: Y is the only winner and is paid the whole pot.
\* ------------------------------------------------------------------------
C27_WinnersAreTheUnbeaten ==
  [][showdown =>
       \A T \in {unbeaten(table')} :
         /\ Cardinality(live(table'.game)) >= 2
         /\ winnerIds(table') = T
         /\ Len(table'.game.winners) = Cardinality(T)
         /\ Cardinality(T) = 1 =>
              /\ table'.game.winners[1].pot_share = table'.game.pot
              /\ \A p \in T :
                   accounts'[p].balance = accounts[p].balance + table'.game.pot
                                            - (IF p = last'.player THEN betPaid ELSE 0)
         /\ queensAgainstNines(table') =>
              /\ handOf(table', 1).ranking = ONE_PAIR
              /\ handOf(table', 2).ranking = THREE_OF_A_KIND
              /\ T = {2}]_vars

\* the showdown of the example has been resolved: Y alone is recorded as
\* the winner, with three of a kind and the whole pot
C27_Witness ==
  /\ table.status = "hand_complete" /\ last.op = "action" /\ last.evaluated
  /\ queensAgainstNines(table)
  /\ table.game.winners = <<[moltbook_id |-> 2, hand_ranking |-> THREE_OF_A_KIND,
                             pot_share |-> table.game.pot]>>

\* ------------------------------------------------------------------------
\* The evaluator on its own: evaluateHand and compareHands applied to
\* card sets drawn from small decks and to sample hands of every category
\* ------------------------------------------------------------------------
hearts == 0
diamonds == 1
clubs == 2
spades == 3
Jack == 11
Queen == 12
King == 13
Ace == 14

\* the card of createDeck with the given value and suit
Card(value, suit) == suit * 13 + (value - 2)

\* the cards with the values vs and the suits ss, in that order
cardsOf(vs, ss) == [i \in DOMAIN vs |-> Card(vs[i], ss[i])]

\* nine-card decks: low straights with the Ace; seven hearts from 8 to Ace;
\* the four nines with three queens and two deuces; the hearts from Ace to
\* 6; unconnected cards with two pairs among them
EvalDecks ==
  {{Card(Ace, clubs), Card(2, diamonds), Card(3, hearts), Card(4, spades), Card(5, clubs),
    Card(6, diamonds), Card(7, hearts), Card(King, diamonds), Card(5, spades)},
   {Card(8, hearts), Card(9, hearts), Card(10, hearts), Card(Jack, hearts),
    Card(Queen, hearts), Card(King, hearts), Card(Ace, hearts), Card(Ace, diamonds),
    Card(King, clubs)},
   {Card(9, spades), Card(9, hearts), Card(9, clubs), Card(9, diamonds), Card(Queen, hearts),
    Card(Queen, diamonds), Card(Queen, clubs), Card(2, spades), Card(2, hearts)},
   {Card(Ace, hearts), Card(2, hearts), Card(3, hearts), Card(4, hearts), Card(5, hearts),
    Card(6, hearts), Card(Ace, spades), Card(2, spades), Card(5, diamonds)},
   {Card(Ace, hearts), Card(King, diamonds), Card(Jack, clubs), Card(9, spades),
    Card(7, hearts), Card(4, diamonds), Card(2, clubs), Card(King, clubs), Card(4, spades)}}

\* every set of 5 to 7 cards of those decks, lowest card of the deck first
EvalCardSets ==
  {AscSeq(S) : S \in UNION {{T \in SUBSET D : Cardinality(T) \in 5..7} : D \in EvalDecks}}

\* hands of every category, a weak and a strong one of each
EvalSamples ==
  {cardsOf(<<Ace, King, Queen, Jack, 9>>, <<hearts, diamonds, clubs, spades, hearts>>),
   cardsOf(<<7, 5, 4, 3, 2>>, <<hearts, diamonds, clubs, spades, hearts>>),
   cardsOf(<<2, 2, 3, 4, 5>>, <<hearts, diamonds, clubs, spades, hearts>>),
   cardsOf(<<Ace, Ace, King, Queen, Jack>>, <<hearts, diamonds, clubs, spades, hearts>>),
   cardsOf(<<3, 3, 2, 2, 4>>, <<hearts, diamonds, clubs, spades, hearts>>),
   cardsOf(<<Ace, Ace, King, King, Queen>>, <<hearts, diamonds, clubs, spades, hearts>>),
   cardsOf(<<2, 2, 2, 3, 4>>, <<hearts, diamonds, clubs, spades, hearts>>),
   cardsOf(<<Ace, Ace, Ace, King, Queen>>, <<hearts, diamonds, clubs, spades, hearts>>),
   cardsOf(<<Ace, 2, 3, 4, 5>>, <<clubs, diamonds, hearts, spades, clubs>>),
   cardsOf(<<5, 4, 3, 2, Ace, King, 9>>, <<hearts, diamonds, clubs, spades, hearts, clubs, clubs>>),
   cardsOf(<<2, 3, 4, 5, 6>>, <<hearts, diamonds, clubs, spades, hearts>>),
   cardsOf(<<9, 10, Jack, Queen, King>>, <<hearts, diamonds, clubs, spades, hearts>>),
   cardsOf(<<10, Jack, Queen, King, Ace>>, <<hearts, diamonds, clubs, spades, hearts>>),
   cardsOf(<<2, 3, 4, 5, 7>>, <<hearts, hearts, hearts, hearts, hearts>>),
   cardsOf(<<Ace, King, Queen, Jack, 9>>, <<spades, spades, spades, spades, spades>>),
   cardsOf(<<2, 2, 2, 3, 3>>, <<hearts, diamonds, clubs, spades, hearts>>),
   cardsOf(<<Ace, Ace, Ace, King, King>>, <<hearts, diamonds, clubs, spades, hearts>>),
   cardsOf(<<2, 2, 2, 2, 3>>, <<hearts, diamonds, clubs, spades, hearts>>),
   cardsOf(<<Ace, Ace, Ace, Ace, King>>, <<hearts, diamonds, clubs, spades, hearts>>),
   cardsOf(<<Ace, 2, 3, 4, 5>>, <<diamonds, diamonds, diamonds, diamonds, diamonds>>),
   cardsOf(<<9, 10, Jack, Queen, King>>, <<clubs, clubs, clubs, clubs, clubs>>),
   cardsOf(<<10, Jack, Queen, King, Ace>>, <<spades, spades, spades, spades, spades>>)}

\* a call of evaluateHand not made yet: the first two cards are the hole
\* cards, the others the community cards
pendingCall(cards) ==
  [holeCards |-> SubSeq(cards, 1, 2), communityCards |-> SubSeq(cards, 3, Len(cards)),
   evaluated |-> FALSE, hand |-> [ranking |-> 0, cards |-> <<>>, kickers |-> <<>>]]

EvalInit ==
  /\ table = NoTable
  /\ accounts = [p \in Players |-> [balance |-> STARTING_BALANCE, current_table |-> FALSE]]
  /\ timers = <<>>
  /\ handsStarted = 0
  /\ requests = 0
  /\ leaves = 0
  /\ arrived = {}
  /\ log = <<>>
  /\ roundStart = 0
  /\ dealerSeat = -1
  /\ inflight = NoWrite
  /\ joining = NoJoin
  /\ last = NoRequest
  /\ \/ \E a \in EvalCardSets :
          evals = [NoEvals EXCEPT !.calls = <<pendingCall(a)>>]
     \/ \E a \in EvalSamples, b \in EvalSamples :
          evals = [NoEvals EXCEPT !.calls = <<pendingCall(a), pendingCall(b)>>]

\* evaluateHand(holeCards, communityCards) for the i-th call
EvaluateHand(i) ==
  /\ i \in DOMAIN evals.calls
  /\ ~evals.calls[i].evaluated
  /\ evals' = [evals EXCEPT
                 !.calls[i].evaluated = TRUE,
                 !.calls[i].hand = evaluateHand(evals.calls[i].holeCards,
                                                evals.calls[i].communityCards)]
  /\ UNCHANGED <<table, accounts, timers, handsStarted, requests, leaves, arrived, log,
                 roundStart, dealerSeat, inflight, joining, last>>

\* compareHands(hand1, hand2) on the two evaluated hands
CompareHands ==
  /\ Len(evals.calls) = 2
  /\ \A i \in 1..2 : evals.calls[i].evaluated
  /\ ~evals.compared
  /\ evals' = [evals EXCEPT
                 !.compared = TRUE,
                 !.result = compareHands(evals.calls[1].hand, evals.calls[2].hand)]
  /\ UNCHANGED <<table, accounts, timers, handsStarted, requests, leaves, arrived, log,
                 roundStart, dealerSeat, inflight, joining, last>>

EvalNext ==
  \/ \E i \in 1..2 : EvaluateHand(i)
  \/ CompareHands

EvalSpec == EvalInit /\ [][EvalNext]_vars

\* the cards of a call
cardsIn(call) == call.holeCards \o call.communityCards

\* the 5-card subsets of a list of cards, each in the order of the list
fiveOf(cards) ==
  {[k \in 1..5 |-> cards[AscSeq(I)[k]]] :
     I \in {J \in SUBSET (DOMAIN cards) : Cardinality(J) = 5}}

\* a 5-card hand evaluated on its own
evalAlone(five) == evaluateHand(SubSeq(five, 1, 2), SubSeq(five, 3, 5))

\* ------------------------------------------------------------------------
\* C28: for any 5 to 7 distinct cards, evaluateHand returns the category
\* and tie-break cards of the strongest 5-card hand among the 5-card
\* subsets of its input: no 5-card subset, evaluated on its own, beats the
\* result under compareHands, and some 5-card subset ties with it.
\* ------------------------------------------------------------------------
C28_BestFiveCardHand ==
  \A i \in DOMAIN evals.calls :
    evals.calls[i].evaluated =>
      \A hs \in {{evalAlone(f) : f \in fiveOf(cardsIn(evals.calls[i]))}} :
        /\ \A h \in hs : compareHands(h, evals.calls[i].hand) >= 0
        /\ \E h \in hs : /\ compareHands(h, evals.calls[i].hand) = 0
                         /\ h.ranking = evals.calls[i].hand.ranking

\* seven cards have been evaluated as a flush although five of them alone
\* make no more than a pair
C28_Witness ==
  \E i \in DOMAIN evals.calls :
    /\ evals.calls[i].evaluated
    /\ Len(cardsIn(evals.calls[i])) = 7
    /\ evals.calls[i].hand.ranking = FLUSH
    /\ \E f \in fiveOf(cardsIn(evals.calls[i])) : evalAlone(f).ranking = ONE_PAIR

\* the best straight of the cards is A-2-3-4-5 and they hold no flush or
\* better: Ace, 2, 3, 4 and 5 are there, no 6 (with at most two more cards
\* every higher straight needs it), and no suit five times (five ranks in
\* at most seven cards leave no room for a full house or four of a kind)
wheelIsBest(cards) ==
  LET vals == {Value(cards[i]) : i \in DOMAIN cards}
  IN /\ {Ace, 2, 3, 4, 5} \subseteq vals
     /\ 6 \notin vals
     /\ \A s \in {hearts, diamonds, clubs, spades} :
          Cardinality({i \in DOMAIN cards : Suit(cards[i]) = s}) < 5

\* the values of a list of cards
valuesOf(cards) == [k \in DOMAIN cards |-> Value(cards[k])]

\* ------------------------------------------------------------------------
\* C29: cards whose best straight is A-2-3-4-5, with no flush or better,
\* evaluate as a Straight whose high card is 5, the Ace counted low, and
\* rank below every other straight under compareHands; Ac 2d 3h 4s 5c is a
\* straight, not a high-card hand.
\* ------------------------------------------------------------------------
C29_WheelIsFiveHighStraight ==
  /\ \A i \in DOMAIN evals.calls :
       evals.calls[i].evaluated =>
         /\ wheelIsBest(cardsIn(evals.calls[i])) =>
              /\ evals.calls[i].hand.ranking = STRAIGHT
              /\ valuesOf(evals.calls[i].hand.cards) = <<5, 4, 3, 2, Ace>>
         /\ cardsIn(evals.calls[i]) = cardsOf(<<Ace, 2, 3, 4, 5>>,
                                              <<clubs, diamonds, hearts, spades, clubs>>) =>
              evals.calls[i].hand.ranking = STRAIGHT
  /\ evals.compared =>
       \A i \in 1..2 : \A j \in {3 - i} :
         (/\ wheelIsBest(cardsIn(evals.calls[i]))
          /\ evals.calls[j].hand.ranking = STRAIGHT
          /\ ~wheelIsBest(cardsIn(evals.calls[j]))) =>
            IF i = 1 THEN evals.result > 0 ELSE evals.result < 0

\* Ac 2d 3h 4s 5c has been compared with the straight from 2 to 6 and lost
C29_Witness ==
  /\ evals.compared
  /\ cardsIn(evals.calls[1]) = cardsOf(<<Ace, 2, 3, 4, 5>>,
                                       <<clubs, diamonds, hearts, spades, clubs>>)
  /\ evals.calls[2].hand.ranking = STRAIGHT
  /\ valuesOf(evals.calls[2].hand.cards) = <<6, 5, 4, 3, 2>>
  /\ evals.result > 0

\* ------------------------------------------------------------------------
\* C30: of two evaluated hands, the one with the higher category ordinal
\* wins under compareHands (a negative result when it is the first, a
\* positive one when it is the second) whatever the card values and the
\* kickers; any one-pair hand beats any high-card hand.
\* ------------------------------------------------------------------------
C30_HigherCategoryWins ==
  evals.compared =>
    \A r1 \in {evals.calls[1].hand.ranking} : \A r2 \in {evals.calls[2].hand.ranking} :
      /\ r1 > r2 => evals.result < 0
      /\ r1 < r2 => evals.result > 0
      /\ (r1 = ONE_PAIR /\ r2 = HIGH_CARD) => evals.result < 0
      /\ (r1 = HIGH_CARD /\ r2 = ONE_PAIR) => evals.result > 0

\* a pair of deuces with 5 4 3 has been compared with Ace King Queen Jack 9
\* and has won
C30_Witness ==
  /\ evals.compared
  /\ evals.calls[1].hand.ranking = ONE_PAIR
  /\ valuesOf(evals.calls[1].hand.cards) = <<2, 2>>
  /\ evals.calls[2].hand.ranking = HIGH_CARD
  /\ valuesOf(evals.calls[2].hand.cards) = <<Ace>>
  /\ evals.result < 0

\* the cards of the hand of game g: the hole cards of the players dealt
\* in, by id, then the community cards
RECURSIVE holeCardsOf(_, _)
holeCardsOf(g, p) ==
  IF p > NumPlayers THEN <<>>
  ELSE g.player_hands[p].hole_cards \o holeCardsOf(g, p + 1)

cardsDealt(g) == holeCardsOf(g, 1) \o g.community_cards

\* no entry of the list occurs twice
distinct(cards) == \A i, j \in DOMAIN cards : cards[i] = cards[j] => i = j

\* ------------------------------------------------------------------------
\* C31: within one hand every card dealt as a hole card or as a community
\* card is distinct, after any sequence of street advances: the cards dealt
\* and the deck left are cards of createDeck, none of them twice.
\* ------------------------------------------------------------------------
C31_DealtCardsAreDistinct ==
  game.exists =>
    /\ distinct(cardsDealt(game))
    /\ Len(cardsDealt(game)) = 2 * Cardinality(dealtIn(game)) + Len(game.community_cards)
    /\ distinct(cardsDealt(game) \o game.deck)
    /\ \A i \in DOMAIN cardsDealt(game) : cardsDealt(game)[i] \in 0..(DECK_SIZE - 1)

\* a hand has been dealt through the river: two hole cards for each player
\* and five community cards
C31_Witness ==
  /\ game.exists /\ game.phase = "river"
  /\ Len(game.community_cards) = 5
  /\ Len(cardsDealt(game)) = 2 * Cardinality(dealtIn(game)) + 5

\* ------------------------------------------------------------------------
\* GET /api/poker/state/:tableId as a function of the table document t and
\* the querying account p.  A name stands for the id of its account; the
\* response time and the remaining turn time, which depend on the clock,
\* are left out.
\* ------------------------------------------------------------------------
\* `${c.rank}${c.suit[0]}`: the rank and the first letter of the suit
cardLabel(c) == <<Value(c), <<"h", "d", "c", "s">>[Suit(c) + 1]>>
cardLabels(cards) == [i \in DOMAIN cards |-> cardLabel(cards[i])]

\* validActions
validActions(t, p) ==
  LET g == t.game
      myHand == g.player_hands[p]
      amountToCall == IF myHand.dealt THEN g.current_bet - myHand.current_bet ELSE 0
  IN IF g.current_turn_player = p /\ myHand.dealt /\ ~myHand.folded
     THEN <<"fold">> \o (IF amountToCall = 0 THEN <<"check">> ELSE <<"call">>) \o <<"raise">>
     ELSE <<>>

\* the players list: the occupied seats in seat order
playersOf(t, p) ==
  LET occ == AscSeq({i \in SeatIdx : t.seats[i].id # 0})
  IN [k \in DOMAIN occ |->
        [seat |-> occ[k], name |-> t.seats[occ[k]].id, balance |-> t.seats[occ[k]].balance,
         is_you |-> t.seats[occ[k]].id = p]]

\* players_in_hand: each entry of players with the flags of the hand of
\* the first seat that holds the name
playersInHand(t, p) ==
  LET ps == playersOf(t, p)
      hand(k) == t.game.player_hands[ps[k].name]
  IN [k \in DOMAIN ps |->
        [seat |-> ps[k].seat, name |-> ps[k].name, balance |-> ps[k].balance,
         is_you |-> ps[k].is_you,
         folded |-> IF hand(k).dealt THEN hand(k).folded ELSE FALSE,
         current_bet |-> IF hand(k).dealt THEN hand(k).current_bet ELSE 0,
         is_current_turn |-> ps[k].name = t.game.current_turn_player]]

\* the state output that also shows the hole cards of every player in
\* players_in_hand
stateOutput_Revealing(t, p) ==
  [status |-> t.status, players |-> playersOf(t, p), seats_taken |-> t.seats_count,
   phase |-> t.game.phase,
   your_cards |-> cardLabels(t.game.player_hands[p].hole_cards),
   players_in_hand |-> [q \in Players |-> cardLabels(t.game.player_hands[q].hole_cards)]]

\* gameState
stateOutput(t, p) ==
  LET g == t.game
      myHand == g.player_hands[p]
  IN IF ~g.exists
     THEN [status |-> t.status, players |-> playersOf(t, p), seats_taken |-> t.seats_count,
           max_seats |-> SEATS_PER_TABLE, phase |-> "waiting",
           message |-> IF t.seats_count >= MIN_PLAYERS_TO_START THEN 0
                       ELSE MIN_PLAYERS_TO_START - t.seats_count]
     ELSE [status |-> t.status, players |-> playersOf(t, p), seats_taken |-> t.seats_count,
           max_seats |-> SEATS_PER_TABLE, phase |-> g.phase,
           hand_number |-> g.hand_number, pot |-> g.pot, current_bet |-> g.current_bet,
           community_cards |-> cardLabels(g.community_cards),
           your_cards |-> IF myHand.dealt THEN cardLabels(myHand.hole_cards) ELSE <<>>,
           your_current_bet |-> IF myHand.dealt THEN myHand.current_bet ELSE 0,
           amount_to_call |-> IF myHand.dealt THEN g.current_bet - myHand.current_bet ELSE 0,
           is_your_turn |-> g.current_turn_player = p,
           current_turn |-> g.current_turn_player,
           valid_actions |-> validActions(t, p),
           you_folded |-> IF myHand.dealt THEN myHand.folded ELSE FALSE,
           winners |-> g.winners,
           players_in_hand |-> playersInHand(t, p)]

\* the table document t with other hole cards for everybody but p and
\* another deck: every such card moved k places on in createDeck
otherCards(t, p, k) ==
  LET moved(cards) == [i \in DOMAIN cards |-> (cards[i] + k) % DECK_SIZE]
  IN [t EXCEPT
        !.game = [t.game EXCEPT
                    !.deck = moved(t.game.deck),
                    !.player_hands =
                       [q \in Players |->
                          IF q = p THEN t.game.player_hands[q]
                          ELSE [t.game.player_hands[q] EXCEPT
                                  !.hole_cards = moved(t.game.player_hands[q].hole_cards)]]]]

CardShifts == {1, 13, 27}

\* ------------------------------------------------------------------------
\* C32: while the hand is in a betting phase the state output for a
\* querying player holds that player's own hole cards and nothing that
\* depends on another player's hole cards or on the undealt deck: two
\* table states that differ only in those produce the same output.
\* ------------------------------------------------------------------------
C32_StateShowsOwnCardsOnly ==
  bettingOpen =>
    \A p \in Players :
      \A out \in {stateOutput(table, p)} :
        /\ hands[p].dealt => out.your_cards = cardLabels(hands[p].hole_cards)
        /\ \A k \in CardShifts : stateOutput(otherCards(table, p, k), p) = out

\* three players are in a hand at the flop: the state output of player 1
\* shows the two hole cards of player 1
C32_Witness ==
  /\ bettingOpen /\ game.phase = "flop"
  /\ Cardinality(dealtIn(game)) = 3
  /\ Len(stateOutput(table, 1).your_cards) = 2
  /\ stateOutput(table, 1).your_cards = cardLabels(hands[1].hole_cards)
  /\ stateOutput(table, 1).your_cards # cardLabels(hands[2].hole_cards)

\* the step just taken is the write of an action handler that leaves the
\* hand it read in play: the same hand, still in a betting phase
handlerWrote ==
  /\ last'.op = "action" /\ last'.result = "accepted"
  /\ requests' = requests + 1 \/ (inflight.active /\ ~inflight'.active)
  /\ bettingOpen
  /\ table'.game.exists /\ table'.game.phase \in BettingPhases
  /\ table'.game.hand_number = game.hand_number
  /\ timers' = timers

\* ------------------------------------------------------------------------
\* C33: requests against one table are serialized: handled concurrently,
\* two requests leave the state that handling them one after the other
\* leaves.  A duplicate action request of the turn holder is applied at
\* most once for the turn and no update of one request is lost by the
\* other: what a handler takes from an account is what it adds to that
\* player's cumulative bet in the table it leaves, and nothing else moves.
\* ------------------------------------------------------------------------
C33_RequestsAreSerialized ==
  [][handlerWrote =>
       \A p \in Players :
         accounts[p].balance - accounts'[p].balance
           = table'.game.player_hands[p].total_bet - hands[p].total_bet]_vars

\* the chips of all accounts and the pot of the hand in progress, not paid
\* out yet
chipsHeld ==
  SumOver(Players, [p \in Players |-> accounts[p].balance])
    + (IF bettingOpen THEN game.pot ELSE 0)

\* ------------------------------------------------------------------------
\* C34: chips are never created: the pot of a hand is paid out at most
\* once, so the balances of all players plus the pot of the hand in
\* progress never exceed the balances the players came with (one of the
\* starting profiles, the one the accounts not yet arrived still show).
\* ------------------------------------------------------------------------
C34_ChipsAreNeverCreated ==
  \E b \in StartProfiles :
    /\ \A p \in Players \ arrived : accounts[p].balance = b[p]
    /\ chipsHeld <= SumOver(Players, b)

\* the hand has been resolved and the next one has not started
handResolved ==
  table.exists /\ table.status = "hand_complete" /\ game.exists /\ game.phase = "waiting"

\* ------------------------------------------------------------------------
\* C35: an action is accepted only while the hand is in a betting phase
\* (pre_flop, flop, turn, river): once the hand has been resolved (status
\* hand_complete, phase waiting) every action of every player, the one who
\* held the turn when the hand ended included, is rejected until the next
\* hand has started.
\* ------------------------------------------------------------------------
C35_ActionsOnlyInBettingPhases ==
  /\ [][(last'.op = "action" /\ last'.result # "rejected" /\ requests' = requests + 1)
          => bettingOpen]_vars
  /\ [](handResolved =>
          \A p \in Players, kind \in ActionKinds :
            \A amount \in (IF kind = "raise" THEN RaiseAmounts ELSE {0}) :
              \A r \in {handleAction(table, accounts, p, kind, amount)} :
                r.result = "rejected")

\* ------------------------------------------------------------------------
\* C36: every accepted call or raise transfers a non-negative amount: no
\* accepted action decreases the pot or a player's cumulative bet, or gives
\* chips to the acting player (betAmount, which the handler subtracts from
\* the balance, is never negative).
\* ------------------------------------------------------------------------
C36_BetsAreNeverNegative ==
  [][(applied("call") \/ applied("raise")) =>
       /\ betPaid >= 0
       /\ table'.game.pot >= game.pot
       /\ \A p \in Players : table'.game.player_hands[p].total_bet >= hands[p].total_bet]_vars

\* ------------------------------------------------------------------------
\* C37: a new hand is never started while a hand is in progress: when
\* several hand-start triggers fire for one table (the delayed start of
\* each join that finds at least 2 players seated, or such a start and the
\* inter-hand timer), one hand is started, the blinds are taken once and
\* the hand in progress (pot, bets, cards) is not overwritten.
\* ------------------------------------------------------------------------
C37_NoDealOverAHandInProgress ==
  [][handDealt => ~(table.status = "playing" /\ bettingOpen)]_vars

\* ------------------------------------------------------------------------
\* The findTable handler is an async function: between the findOne of
\* findOrCreateAvailableTable (line 593) and its updateOne of the table
\* (lines 671-677) it awaits, and another request or a setTimeout callback
\* can run.  FindTableRead is the handler up to the write: the checks of
\* the account, the table findOrCreateAvailableTable returns (inserted when
\* none is available) and the emptySeatIndex, seatData and newSeatsCount
\* computed on the document it read.  FindTableWrite is the
\* $set of 'seats.<emptySeatIndex>' with the $inc of seats_count, the $set
\* of the account's current_table and the delayed start of a hand.
\* ------------------------------------------------------------------------
FindTableRead(p) ==
  LET t0 == IF table.exists THEN table ELSE [NoTable EXCEPT !.exists = TRUE]
      E == {i \in SeatIdx : t0.seats[i].id = 0}
      emptySeatIndex == CHOOSE i \in E : \A j \in E : i <= j
      newSeatsCount == t0.seats_count + 1
  IN /\ ~joining.active
     /\ accounts[p].balance > 0
     /\ ~accounts[p].current_table
     /\ \A q \in Players : q < p => q \in arrived
     /\ arrived' = arrived \cup {p}
     /\ ~table.exists \/ (table.seats_count < SEATS_PER_TABLE /\ table.status = "waiting")
     /\ E # {}
     /\ requests < MaxRequests
     /\ requests' = requests + 1
     /\ table' = t0
     /\ joining' = [active |-> TRUE, player |-> p, seat |-> emptySeatIndex,
                    balance |-> accounts[p].balance,
                    starts |-> newSeatsCount >= MIN_PLAYERS_TO_START
                                 /\ (~t0.game.exists \/ t0.status = "waiting")]
     /\ UNCHANGED <<accounts, timers, handsStarted, leaves, log, roundStart, dealerSeat,
                    inflight, evals, last>>

FindTableWrite ==
  /\ joining.active
  /\ table.exists
  /\ Len(timers) < MaxTimers
  /\ table' = [table EXCEPT !.seats[joining.seat] =
                              [id |-> joining.player, balance |-> joining.balance],
                            !.seats_count = @ + 1]
  /\ accounts' = [accounts EXCEPT ![joining.player].current_table = TRUE]
  /\ IF joining.starts
     THEN \E k \in joinSlots(timers) : timers' = scheduleJoinAt(timers, k)
     ELSE timers' = timers
  /\ last' = [NoRequest EXCEPT !.op = "findTable", !.player = joining.player,
                               !.result = "accepted"]
  /\ joining' = NoJoin
  /\ UNCHANGED <<handsStarted, requests, leaves, arrived, log, roundStart, dealerSeat,
                 inflight, evals>>

\* the requests of one account follow one another: while a findTable of
\* an account is between its read and its write, the other requests are
\* those of the other accounts
JoinRaceNext ==
  \/ \E p \in Players \ {joining.player} : FindTable(p)
  \/ \E p \in Players \ {joining.player} : Leave(p)
  \/ \E p \in Players \ {joining.player}, kind \in ActionKinds :
       \E amount \in (IF kind = "raise" THEN RaiseAmounts ELSE {0}) : Action(p, kind, amount)
  \/ \E rnd \in Shuffles : JoinTimer(rnd)
  \/ \E rnd \in Shuffles : HandTimer(rnd)
  \/ \E p \in Players : FindTableRead(p)
  \/ FindTableWrite

JoinRaceSpec == Init /\ [][JoinRaceNext]_vars

\* the seats of the table that hold player p
seatsOf(p) == {i \in SeatIdx : table.seats[i].id = p}
\* the seats of the table that hold a player
occupiedSeats == {i \in SeatIdx : table.seats[i].id # 0}

\* ------------------------------------------------------------------------
\* C38: under any interleaving of findTable requests of different players,
\* no two players are given the same seat and no seat record is
\* overwritten by another player (every account whose current_table is set
\* holds exactly one seat of the table), and seats_count is the number of
\* occupied seats.
\* ------------------------------------------------------------------------
C38_JoinsGetSeatsOfTheirOwn ==
  table.exists =>
    /\ \A p \in Players : Cardinality(seatsOf(p)) <= 1
    /\ \A p \in Players : accounts[p].current_table => seatsOf(p) # {}
    /\ table.seats_count = Cardinality(occupiedSeats)

\* ------------------------------------------------------------------------
\* C39: for every seated player the balance in the seat record of the
\* table equals the balance of the account record, after any sequence of
\* joins, hand starts, accepted actions and payouts: it holds as long as
\* no player has left, and every join, hand start, action and payout
\* changes the seat record and the account of a seated player by the same
\* amount and seats a joining player with the balance of the account.
\* ------------------------------------------------------------------------
seatMatchesAccount == \A p \in Players : seated(p) => seatBalance(p) = accounts[p].balance

C39_SeatBalanceIsAccountBalance ==
  /\ [](leaves = 0 => seatMatchesAccount)
  /\ [][(last'.result # "threw" /\ leaves' = leaves) =>
          \A p \in Players :
            /\ (seated(p) /\ seated(p)') =>
                  seatBalance(p)' - seatBalance(p) = accounts'[p].balance - accounts[p].balance
            /\ (~seated(p) /\ seated(p)') => seatBalance(p)' = accounts'[p].balance]_vars

\* three players are seated, none has left, and a hand dealt to them has
\* been bet on and paid out
C39_Witness ==
  /\ leaves = 0
  /\ handResolved
  /\ last.op = "action" /\ last.result = "accepted"
  /\ \A p \in Players : seated(p) /\ seatBalance(p) = accounts[p].balance
  /\ \E p \in Players : accounts[p].balance > STARTING_BALANCE

\* ------------------------------------------------------------------------
\* C40: for the player whose turn it is, valid_actions of the state output
\* agrees with what the action handler accepts in the same state: 'check'
\* is listed iff a check would be accepted, and 'call' is listed iff a call
\* would be accepted and would transfer a positive amount or put the
\* player all-in.
\* ------------------------------------------------------------------------
listed(kind, p) == \E i \in DOMAIN validActions(table, p) : validActions(table, p)[i] = kind

checkAgrees(p) ==
  \A r \in {handleAction(table, accounts, p, "check", 0)} :
    listed("check", p) <=> r.result = "accepted"

\* a call that transfers nothing puts the player all-in when chips are
\* owed and the player has none left
callAgrees(p) ==
  \A r \in {handleAction(table, accounts, p, "call", 0)} :
    listed("call", p) <=>
      /\ r.result = "accepted"
      /\ \/ r.bet > 0
         \/ game.current_bet - hands[p].current_bet > 0 /\ r.accounts[p].balance = 0

C40_ValidActionsAgreeWithHandler ==
  (table.exists /\ game.exists) =>
    \A p \in Players :
      game.current_turn_player = p => checkAgrees(p) /\ callAgrees(p)

====
